---- MODULE Spec2Model ----
(***************************************************************************)
(* Model of the simulation core of the vertical-defense game:              *)
(* GameEngine (frame pipeline and game-status machine), EntityManager      *)
(* (staged additions/removals), the entities' update and collision         *)
(* handlers, PhysicsSystem, and PowerUpManager.                            *)
(*                                                                         *)
(* Entity objects live in the heap `ent` (a sequence of records; an id is  *)
(* the index of the object), so that the engine, the EntityManager and the *)
(* PowerUpManager can share references to the same object as they do in    *)
(* the code.  One frame (GameEngine.update) is split into its sub-steps,   *)
(* `pc` being the position inside the frame.                               *)
(*                                                                         *)
(* Quantities the code computes in floating point are kept as integers:    *)
(* time in milliseconds, positions in pixels.  The playfield is sampled on *)
(* the columns ColXs and the rows RowYs (one row between any two           *)
(* thresholds the code compares a y coordinate with); one physics step     *)
(* moves an entity to the adjacent row in the direction of its velocity,   *)
(* a slow power-up staying on its row or moving.  In the runs of the       *)
(* engine the spawners' and the player's accumulators are not tracked:     *)
(* whether an accumulator has reached its interval in a frame is a free    *)
(* choice; SpecGun follows the player's shot timer and SpecSpawn the       *)
(* spawners' accumulators (spawnTimers).  Audio is a side-effect sink and  *)
(* is left out; the particles of an explosion are created in SpecDrain     *)
(* only, one per explosion.  An object nobody refers to any more gives its *)
(* heap slot back.  The clock is kept as the time gone since lastTime was  *)
(* set, the display as the number of frame callbacks that are pending.     *)
(*                                                                         *)
(* Spec explores short runs with every spawner and the gun, SpecSiege long *)
(* runs in which only enemies arrive, SpecLevel runs long enough for the   *)
(* level to advance, SpecPU the PowerUpManager alone, SpecShield the same  *)
(* with a player under attack, SpecLM the LevelManager alone and SpecPair  *)
(* the collision tests on two entities.  SpecFall follows enemies down     *)
(* past the player, SpecBoss plays up to the level of the boss, SpecShot   *)
(* fires the gun under power-ups, SpecGun runs the shot timer of one       *)
(* player, SpecHit lets two entities collide and SpecCrowd puts one        *)
(* projectile among several targets.  SpecSpawn calls the two spawners     *)
(* alone, SpecKind draws the kind of an enemy at every level, and          *)
(* SpecDrain lets the frames go on, under fairness, until everything that  *)
(* arrived in the first frames has left the manager.                       *)
(***************************************************************************)
EXTENDS Integers, Sequences, FiniteSets, TLC

\* ---------------------------------------------------------------- bounds
MaxIds == 3          \* spawners and the gun construct only below this many active objects
MaxFrames == 4       \* playing frames per level timer run
MaxSiegeFrames == 11 \* the same, in the siege runs
MaxLevelUps == 2     \* fire-rate steps of advanceLevel on the PowerUpManager alone
MaxLevel == 2        \* the level runs play levels up to this one
MaxLevelFrames == 4  \* frames with kills or keys at the start of a level timer run
MaxCallbacks == 2    \* frame callbacks pending at a time
MaxFallFrames == 6   \* playing frames per level timer run, in the runs past the player
BossLevel == 3       \* the boss runs play levels up to this one
MaxShots == 1        \* volleys staged at a time, on the gun alone
MaxGunMs == 400      \* the shot timer is followed up to here, on the player alone
MaxTimerMs == 46000  \* the spawners' accumulators are followed up to here, on the spawners alone
MaxKindLevel == 12   \* chooseEnemyType is asked for levels up to this one
MaxSpawned == 3      \* entities in the manager, on the spawners alone
MaxArrivalFrames == 1 \* frames in which the gun and the spawners may be due, in the frames that go on

\* ------------------------------------------------------- program constants
CanvasWidth == 800
CanvasHeight == 600
MaxDeltaMs == 33             \* frame delta cap, Math.min(.., 1/30) in ms
InitialLives == 3
PlayerHealth == 3
BaseFireRate == 300          \* ms between shots
MinFireRate == 50
ClearRadius == 100
PickupRadius == 30
BossAttackDamage == 3
SpreadAngle == 1800   \* Math.PI / 6, in minutes of arc
BottomDamageMargin == 50
CullMargin == 100
PowerUpPoints == 50
LevelDurationMs == 30000
BossSpawnInterval == 45000   \* ms
MaxBarrels == 3
PowerUpLifeMs == 15000       \* PowerUp.maxLifeTime

ColXs == {400, 600}
RowYs == {-50, 250, 480, 550, 630, 670}

EntityType == {"player", "enemy", "projectile", "powerup", "barrel", "particle"}
PowerUpType == {"rapid_fire", "multi_shot", "shield", "damage_boost", "health_restore"}
Keys == {"start", "restart", "pause"}

\* Inputs of one frame: at most one key pressed since the previous frame
KeyInputs == {{}} \cup {{k} : k \in Keys}

\* Milliseconds between two events of the page (a display frame at 60 Hz, a
\* tab left in the background)
Gaps == {16, 5000}

\* Draws of the spawners that are explored
EnemyColXs == ColXs
BarrelColXs == {400}
SiegeColXs == {425}
FallColXs == {600}
BossXs == {-100, CanvasWidth + 100}
BarrelDraws == {"rapid_fire", "shield"}

\* Level runs: destroyed enemies the destruction scan meets in one frame, and
\* the length of a stretch of frames in which nothing happens (just under
\* the 30 s of a level)
KillCounts == {0, 5}
QuietFrames == 905

\* Levels asked of the LevelManager alone
MaxQueryLevel == 36

\* Calls explored on the PowerUpManager alone
PUKinds == {"rapid_fire", "shield", "health_restore"}
PUSteps == {1000, 4000}

VARIABLES
  pc,                     \* position inside GameEngine.update
  gameState,              \* [currentLevel, score, lives, gameStatus]
  isRunning,
  highScore,
  levelProgressTimer,
  enemiesKilledThisLevel,
  lmLevel,                \* LevelManager.currentLevel
  ent,                    \* heap of entity objects, id = index
  player,                 \* GameEngine.player (0 = null)
  entities,               \* EntityManager.entities, ids in insertion order
  entitiesToAdd,
  entitiesToRemove,
  entitiesByType,
  activePowerUps,         \* PowerUpManager.activePowerUps, entries in insertion order
  pmPlayer,               \* PowerUpManager.player (0 = null)
  scheduled,              \* frame callbacks requested and neither fired nor cancelled
  framePending,           \* animationFrameId names one of them
  elapsed,                \* performance.now() - lastTime, in ms
  updateArgs,             \* deltaTime of the update calls of the last gameLoop call
  spawnTimers,            \* lastSpawnTime of the two spawners and lastBossSpawn, in ms
  lastCall                \* the call made last on a system driven alone, and what it found

vars == <<pc, gameState, isRunning, highScore, levelProgressTimer,
          enemiesKilledThisLevel, lmLevel, ent, player, entities,
          entitiesToAdd, entitiesToRemove, entitiesByType, activePowerUps,
          pmPlayer, scheduled, framePending, elapsed, updateArgs, spawnTimers, lastCall>>

\* ----------------------------------------------------------- small helpers
Max(a, b) == IF a >= b THEN a ELSE b
Min(a, b) == IF a <= b THEN a ELSE b
SeqToSet(s) == {s[i] : i \in DOMAIN s}

\* ------------------------------------------------------------------ Entity
\* Size by kind (constructors of Player, Enemy, Projectile, Barrel, PowerUp).
Size(e) ==
  CASE e.kind = "player" -> [x |-> 40, y |-> 40]
    [] e.kind = "enemy" /\ e.sub = "fast" -> [x |-> 25, y |-> 25]
    [] e.kind = "enemy" /\ e.sub = "heavy" -> [x |-> 50, y |-> 50]
    [] e.kind = "enemy" /\ e.sub = "boss" -> [x |-> 80, y |-> 80]
    [] e.kind = "enemy" -> [x |-> 35, y |-> 35]
    [] e.kind = "projectile" -> [x |-> 6, y |-> 12]
    [] e.kind = "barrel" -> [x |-> 30, y |-> 30]
    [] e.kind = "powerup" -> [x |-> 24, y |-> 24]
    [] OTHER -> [x |-> 32, y |-> 32]

\* Entity constructor: health = maxHealth, active, velocity set by the subclass.
\* `from` and `scored` are history fields: the barrel a power-up was dropped
\* by, and how often the scoring step has counted the entity.
NewEntity(kind, sub, x, y, health) ==
  [kind |-> kind, sub |-> sub, x |-> x, y |-> y,
   health |-> health, maxHealth |-> health, active |-> TRUE,
   dmg |-> 0, points |-> 0, fireRate |-> 0, shieldActive |-> FALSE,
   from |-> 0, scored |-> 0, angle |-> 0, lastShotTime |-> 0, lifeTime |-> 0]

NewPlayer ==
  [NewEntity("player", "player", CanvasWidth \div 2, CanvasHeight - 50, PlayerHealth)
     EXCEPT !.fireRate = BaseFireRate]

EnemyHealth(t) == CASE t = "fast" -> 1 [] t = "heavy" -> 3 [] OTHER -> 2
EnemyPoints(t) == CASE t = "fast" -> 15 [] t = "heavy" -> 30 [] OTHER -> 10
EnemyAttackDamage(t) == CASE t = "heavy" -> 2 [] OTHER -> 1

\* Level 1 and 2 have enemyHealthMultiplier 1.0, the levels the model reaches.
NewEnemy(t, x) ==
  [NewEntity("enemy", t, x, -50, EnemyHealth(t))
     EXCEPT !.points = EnemyPoints(t), !.dmg = EnemyAttackDamage(t)]

\* BossEnemy: 200 points, attack damage 3, health Math.ceil(15 * multiplier)
\* with the multiplier in thousandths, spawned at y = -100
NewBoss(x, healthMultiplier) ==
  [NewEntity("enemy", "boss", x, -100, (15 * healthMultiplier + 999) \div 1000)
     EXCEPT !.points = 200, !.dmg = BossAttackDamage]

NewBarrel(powerUpType, x) == NewEntity("barrel", powerUpType, x, -50, 1)

\* A projectile of the player; its direction is (sin(angle), -cos(angle)),
\* the angle in minutes of arc from straight up
NewProjectile(x, y, damage) ==
  [NewEntity("projectile", "player", x, y, 1) EXCEPT !.dmg = damage]

AimedProjectile(x, y, damage, angle) ==
  [NewProjectile(x, y, damage) EXCEPT !.angle = angle]

NewPowerUp(powerUpType, x, y, barrel) ==
  [NewEntity("powerup", powerUpType, x, y, 1) EXCEPT !.from = barrel]

\* ExplosionParticle and SparkParticle: maxLifeTime in ms
ParticleLife(sub) == IF sub = "spark" THEN 500 ELSE 800

\* A particle; its flight is not followed (leaving the canvas only ends it
\* sooner than its lifetime does)
NewParticle(sub, x, y) == NewEntity("particle", sub, x, y, 1)

\* A heap slot whose object is no longer referenced
Freed == [NewEntity("none", "none", 0, 0, 0) EXCEPT !.active = FALSE]

\* The id a newly constructed object gets: the first free slot
Alloc(h) ==
  IF \E i \in DOMAIN h : h[i] = Freed
  THEN CHOOSE i \in DOMAIN h : h[i] = Freed /\ \A j \in DOMAIN h : h[j] = Freed => i <= j
  ELSE Len(h) + 1

Store(h, e) ==
  [i \in 1 .. Max(Len(h), Alloc(h)) |-> IF i = Alloc(h) THEN e ELSE h[i]]

\* Number of objects in play (constructed and not destroyed)
Population(h) == Cardinality({i \in DOMAIN h : h[i].active})

\* Entity.destroy
Destroy(h, id) == [h EXCEPT ![id].active = FALSE]

\* Entity.takeDamage for every entity, the player under a shield included
TakeDamageThroughShield(h, id, damage) ==
  IF h[id].health - damage <= 0
  THEN [h EXCEPT ![id].health = 0, ![id].active = FALSE]
  ELSE [h EXCEPT ![id].health = h[id].health - damage]

\* Entity.takeDamage, with Player's override (the shield blocks all damage)
TakeDamage(h, id, damage) ==
  IF h[id].kind = "player" /\ h[id].shieldActive THEN h
  ELSE IF h[id].health - damage <= 0
       THEN [h EXCEPT ![id].health = 0, ![id].active = FALSE]
       ELSE [h EXCEPT ![id].health = h[id].health - damage]

\* Entity.heal
Heal(h, id, amount) ==
  [h EXCEPT ![id].health = Min(h[id].health + amount, h[id].maxHealth)]

\* Player.shoot that leaves the timer as it is
PlayerShootKeepingTime(h, id) == h

\* Player.canShoot, and Player.shoot on the timer
CanShoot(e) == e.lastShotTime >= e.fireRate

PlayerShoot(h, id) ==
  IF CanShoot(h[id]) THEN [h EXCEPT ![id].lastShotTime = 0] ELSE h

\* Player.handleInput on the timer: lastShotTime += deltaTime
PlayerUpdate(h, id, dt) == [h EXCEPT ![id].lastShotTime = h[id].lastShotTime + dt]

\* Player.setFireRate
SetFireRate(h, id, rate) == [h EXCEPT ![id].fireRate = Max(MinFireRate, rate)]

\* The overlap test with the left edge of a compared to the left edge of b
IntersectsLeftEdge(a, b) ==
  LET sa == Size(a) sb == Size(b) IN
  /\ 2 * a.x - sa.x < 2 * b.x - sb.x
  /\ 2 * a.x + sa.x > 2 * b.x - sb.x
  /\ 2 * a.y - sa.y < 2 * b.y + sb.y
  /\ 2 * a.y + sa.y > 2 * b.y - sb.y

\* Entity.intersects / CollisionSystem.checkAABBCollision on the bounds
\* (position - size/2, size); both sides are doubled to stay in integers.
Intersects(a, b) ==
  LET sa == Size(a) sb == Size(b) IN
  /\ 2 * a.x - sa.x < 2 * b.x + sb.x
  /\ 2 * a.x + sa.x > 2 * b.x - sb.x
  /\ 2 * a.y - sa.y < 2 * b.y + sb.y
  /\ 2 * a.y + sa.y > 2 * b.y - sb.y

\* Vector2.distance(a, b) < r, compared on the squares
DistanceBelow(a, b, r) ==
  (a.x - b.x) * (a.x - b.x) + (a.y - b.y) * (a.y - b.y) < r * r

\* ----------------------------------------------------- entities' update()
\* Enemy.hasReachedBottom: position.y - size.y / 2 > canvasHeight
EnemyReachedBottom(e) == 2 * e.y - Size(e).y > 2 * CanvasHeight

\* BossEnemy.hasReachedBottom: position.y - size.y / 2 > canvasHeight + 100
BossReachedBottom(e) == 2 * e.y - Size(e).y > 2 * (CanvasHeight + 100)

\* Barrel.hasReachedBottom and PowerUp.hasReachedBottom:
\* position.y - size.y / 2 > canvasHeight + 50
DropReachedBottom(e) == 2 * e.y - Size(e).y > 2 * (CanvasHeight + 50)

\* Projectile.isInBounds
ProjectileInBounds(e) ==
  LET s == Size(e) IN
  /\ 2 * e.x + s.x >= 0
  /\ 2 * e.x - s.x <= 2 * CanvasWidth
  /\ 2 * e.y + s.y >= 0
  /\ 2 * e.y - s.y <= 2 * CanvasHeight

\* PowerUp.update without the lifetime
PowerUpUpdateAgeless(e, dt) ==
  IF DropReachedBottom(e) THEN [e EXCEPT !.active = FALSE] ELSE e

\* PowerUp.update
PowerUpUpdate(e, dt) ==
  LET e1 == [e EXCEPT !.lifeTime = e.lifeTime + dt] IN
  IF e1.lifeTime > PowerUpLifeMs \/ DropReachedBottom(e1)
  THEN [e1 EXCEPT !.active = FALSE] ELSE e1

\* Particle.update
ParticleUpdate(e, dt) ==
  LET e1 == [e EXCEPT !.lifeTime = e.lifeTime + dt] IN
  IF e1.lifeTime >= ParticleLife(e1.sub)
  THEN [e1 EXCEPT !.active = FALSE] ELSE e1

\* update(deltaTime) of each Entity subclass.  With no movement key held the
\* player's update leaves it in place (its position is inside the bounds
\* constrainToBounds enforces).
EntityUpdate(e, dt) ==
  CASE e.kind = "enemy" ->
         IF IF e.sub = "boss" THEN BossReachedBottom(e) ELSE EnemyReachedBottom(e)
         THEN [e EXCEPT !.active = FALSE] ELSE e
    [] e.kind = "projectile" ->
         IF ProjectileInBounds(e) THEN e ELSE [e EXCEPT !.active = FALSE]
    [] e.kind = "barrel" ->
         IF DropReachedBottom(e) THEN [e EXCEPT !.active = FALSE] ELSE e
    [] e.kind = "powerup" -> PowerUpUpdate(e, dt)
    [] e.kind = "particle" -> ParticleUpdate(e, dt)
    [] OTHER -> e

\* ------------------------------------------------------------ EntityManager
NoIndex == [t \in EntityType |-> {}]

\* The state of an EntityManager as a record, so that the handlers can pass
\* it along: e = entities, a = entitiesToAdd, r = entitiesToRemove,
\* t = entitiesByType.
EM(e, a, r, t) == [e |-> e, a |-> a, r |-> r, t |-> t]
CurEM == EM(entities, entitiesToAdd, entitiesToRemove, entitiesByType)

\* EntityManager.clear
EMClear == EM(<<>>, <<>>, <<>>, NoIndex)

\* EntityManager.addEntity
EMAddEntity(m, id) == [m EXCEPT !.a = Append(m.a, id)]

\* EntityManager.removeEntity
EMRemoveEntity(m, id) == [m EXCEPT !.r = Append(m.r, id)]

\* Map.set of every staged entity, in order: a key already present keeps its place
RECURSIVE MapSetAll(_, _)
MapSetAll(live, adds) ==
  IF adds = <<>> THEN live
  ELSE MapSetAll(IF Head(adds) \in SeqToSet(live) THEN live
                 ELSE Append(live, Head(adds)), Tail(adds))

\* The promotion forgetting the kind index
EMPromoteUnindexed(m, h) == EM(MapSetAll(m.e, m.a), <<>>, m.r, m.t)

\* First two loops of EntityManager.update: promote the staged additions into
\* the live set and the kind index, then delete the staged removals from both.
EMPromote(m, h) ==
  LET live == MapSetAll(m.e, m.a)
      idx == [t \in EntityType |->
                m.t[t] \cup {id \in SeqToSet(m.a) : h[id].kind = t}]
  IN EM(live, <<>>, m.r, idx)

EMRemoveStaged(m, h) ==
  LET gone == SeqToSet(m.r)
      idx == [t \in EntityType |->
                m.t[t] \ {id \in gone \cap SeqToSet(m.e) : h[id].kind = t}]
  IN EM(SelectSeq(m.e, LAMBDA id : id \notin gone), m.a, <<>>, idx)

\* The entities whose update() the third loop of EntityManager.update calls
Updated(m, h) == SelectSeq(m.e, LAMBDA id : h[id].active)

\* RenderSystem.render(entities): the entities whose render() it calls
Rendered(list, h) == SelectSeq(list, LAMBDA id : h[id].active)

\* Third loop of EntityManager.update: an active entity is updated, an
\* inactive one is staged for removal (and stays in the live set until the
\* next call).  An update only changes the entity itself.
EMUpdatePass(m, h, dt) ==
  [m |-> [m EXCEPT !.r = m.r \o SelectSeq(m.e, LAMBDA id : ~h[id].active)],
   h |-> [id \in DOMAIN h |->
            IF id \in SeqToSet(Updated(m, h))
            THEN EntityUpdate(h[id], dt) ELSE h[id]]]

\* EntityManager.update
EMUpdate(m, h, dt) == EMUpdatePass(EMRemoveStaged(EMPromote(m, h), h), h, dt)

\* Queries
GetEntity(m, id) == IF id \in SeqToSet(m.e) THEN {id} ELSE {}
GetAllEntities(m) == m.e
GetEntitiesByEntityType(m, t) ==
  SelectSeq(m.e, LAMBDA id : id \in m.t[t])
GetEntityCountByType(m, t) == Cardinality(m.t[t])
HasEntitiesOfType(m, t) == GetEntityCountByType(m, t) > 0

\* ----------------------------------------------------------- PowerUpManager
\* PowerUp.getPowerUpConfig: duration in ms, value as a fraction
Config(type) ==
  CASE type = "rapid_fire" -> [type |-> type, duration |-> 8000, num |-> 1, den |-> 2]
    [] type = "multi_shot" -> [type |-> type, duration |-> 10000, num |-> 3, den |-> 1]
    [] type = "shield" -> [type |-> type, duration |-> 12000, num |-> 1, den |-> 1]
    [] type = "damage_boost" -> [type |-> type, duration |-> 15000, num |-> 2, den |-> 1]
    [] type = "health_restore" -> [type |-> type, duration |-> 0, num |-> 1, den |-> 1]
    [] OTHER -> [type |-> type, duration |-> 5000, num |-> 1, den |-> 1]

\* The state the PowerUpManager works on: its map (pu) and the heap (h)
\* holding the player object p it refers to.
PU(pu, h) == [pu |-> pu, h |-> h]

HasPowerUp(pu, type) == \E i \in DOMAIN pu : pu[i].type = type
GetPowerUpEffect(pu, type) == {pu[i] : i \in {j \in DOMAIN pu : pu[j].type = type}}
GetActivePowerUps(pu) == pu

\* Map.set: an existing key keeps its place and gets the new value
MapSet(pu, effect) ==
  IF HasPowerUp(pu, effect.type)
  THEN [i \in DOMAIN pu |-> IF pu[i].type = effect.type THEN effect ELSE pu[i]]
  ELSE Append(pu, effect)

MapDelete(pu, type) == SelectSeq(pu, LAMBDA f : f.type # type)

\* removePowerUp giving the fire rate back by undoing the multiplication
RemovePowerUpUndoing(s, p, type) ==
  IF ~HasPowerUp(s.pu, type) \/ p = 0 THEN s
  ELSE LET h1 == CASE type = "rapid_fire" -> SetFireRate(s.h, p, 2 * s.h[p].fireRate)
                   [] type = "shield" -> [s.h EXCEPT ![p].shieldActive = FALSE]
                   [] OTHER -> s.h
       IN PU(MapDelete(s.pu, type), h1)

\* PowerUpManager.removePowerUp
RemovePowerUp(s, p, type) ==
  IF ~HasPowerUp(s.pu, type) \/ p = 0 THEN s
  ELSE LET h1 == CASE type = "rapid_fire" -> SetFireRate(s.h, p, BaseFireRate)
                   [] type = "shield" -> [s.h EXCEPT ![p].shieldActive = FALSE]
                   [] OTHER -> s.h
       IN PU(MapDelete(s.pu, type), h1)

\* PowerUpManager.applyPowerUp
ApplyPowerUp(h, p, effect) ==
  IF p = 0 THEN h
  ELSE CASE effect.type = "rapid_fire" ->
              SetFireRate(h, p, (h[p].fireRate * effect.num) \div effect.den)
         [] effect.type = "shield" -> [h EXCEPT ![p].shieldActive = TRUE]
         [] effect.type = "health_restore" -> Heal(h, p, effect.num \div effect.den)
         [] OTHER -> h

\* addPowerUp adding the new duration to what is left of the old effect
AddPowerUpStacking(s, p, config) ==
  LET left == IF HasPowerUp(s.pu, config.type)
              THEN (CHOOSE f \in SeqToSet(s.pu) : f.type = config.type).timeRemaining
              ELSE 0
      effect == [type |-> config.type, duration |-> config.duration,
                 num |-> config.num, den |-> config.den,
                 timeRemaining |-> left + config.duration]
      s1 == IF HasPowerUp(s.pu, config.type)
            THEN RemovePowerUp(s, p, config.type) ELSE s
  IN PU(MapSet(s1.pu, effect), ApplyPowerUp(s1.h, p, effect))

\* PowerUpManager.addPowerUp
AddPowerUp(s, p, config) ==
  LET effect == [type |-> config.type, duration |-> config.duration,
                 num |-> config.num, den |-> config.den,
                 timeRemaining |-> config.duration]
      s1 == IF HasPowerUp(s.pu, config.type)
            THEN RemovePowerUp(s, p, config.type) ELSE s
  IN PU(MapSet(s1.pu, effect), ApplyPowerUp(s1.h, p, effect))

\* PowerUpManager.update: every entry of the map, in order
RECURSIVE PUUpdateFrom(_, _, _, _)
PUUpdateFrom(s, p, types, dt) ==
  IF types = <<>> THEN s
  ELSE LET type == Head(types)
           f == CHOOSE g \in SeqToSet(s.pu) : g.type = type
           left == f.timeRemaining - dt
           s1 == PU([i \in DOMAIN s.pu |->
                       IF s.pu[i].type = type
                       THEN [s.pu[i] EXCEPT !.timeRemaining = left] ELSE s.pu[i]],
                    s.h)
       IN IF f.duration > 0
          THEN PUUpdateFrom(IF left <= 0 THEN RemovePowerUp(s1, p, type) ELSE s1,
                            p, Tail(types), dt)
          ELSE PUUpdateFrom(s, p, Tail(types), dt)

PUUpdate(s, p, dt) ==
  PUUpdateFrom(s, p, [i \in DOMAIN s.pu |-> s.pu[i].type], dt)

\* PowerUpManager.clear
RECURSIVE PUClearFrom(_, _, _)
PUClearFrom(s, p, types) ==
  IF types = <<>> THEN s
  ELSE PUClearFrom(RemovePowerUp(s, p, Head(types)), p, Tail(types))

PUClear(s, p) == PUClearFrom(s, p, [i \in DOMAIN s.pu |-> s.pu[i].type])

GetMultiShotCount(pu) ==
  IF HasPowerUp(pu, "multi_shot")
  THEN LET f == CHOOSE g \in SeqToSet(pu) : g.type = "multi_shot" IN f.num \div f.den
  ELSE 1

GetDamageMultiplier(pu) ==
  IF HasPowerUp(pu, "damage_boost")
  THEN LET f == CHOOSE g \in SeqToSet(pu) : g.type = "damage_boost" IN f.num \div f.den
  ELSE 1

\* What lastCall records: the method, its argument (kind or dt), the map and
\* the player's fire rate as they were before the call.
Call(op, type, dt, pu, h, p) ==
  [op |-> op, type |-> type, dt |-> dt, before |-> pu,
   rate |-> IF p = 0 THEN 0 ELSE h[p].fireRate]

NoCall == [op |-> "none", type |-> "none", dt |-> 0, before |-> <<>>, rate |-> 0]

\* ------------------------------------------------------------ PhysicsSystem
\* PhysicsSystem.shouldCheckCollision
CollisionRules(t) ==
  CASE t = "player" -> {"enemy", "powerup", "barrel"}
    [] t = "enemy" -> {"player", "projectile"}
    [] t = "projectile" -> {"enemy", "barrel"}
    [] t = "powerup" -> {"player"}
    [] t = "barrel" -> {"player", "projectile"}
    [] OTHER -> {}

ShouldCheckCollision(a, b) ==
  b.kind \in CollisionRules(a.kind) \/ a.kind \in CollisionRules(b.kind)

\* The handlers, each acting only on an other that is still active
OnCollisionWithLive(h, self, other) ==
  LET me == h[self] it == h[other] IN
  IF ~it.active THEN h
  ELSE
  CASE me.kind = "player" ->
         IF it.kind = "enemy" THEN TakeDamage(h, self, 1) ELSE h
    [] me.kind = "enemy" ->
         IF it.kind # "player" THEN h
         ELSE IF me.sub = "boss" THEN TakeDamage(h, other, me.dmg)
         ELSE Destroy(TakeDamage(h, other, me.dmg), self)
    [] me.kind = "projectile" ->
         IF \/ me.sub = "player" /\ it.kind \in {"enemy", "barrel"}
            \/ me.sub = "enemy" /\ it.kind = "player"
         THEN Destroy(TakeDamage(h, other, me.dmg), self) ELSE h
    [] me.kind = "barrel" ->
         IF it.kind \in {"projectile", "player"} THEN Destroy(h, self) ELSE h
    [] me.kind = "powerup" ->
         IF it.kind = "player" THEN Destroy(h, self) ELSE h
    [] OTHER -> h

\* onCollision(other) of Player, Enemy, Projectile, Barrel and PowerUp
OnCollision(h, self, other) ==
  LET me == h[self] it == h[other] IN
  CASE me.kind = "player" ->
         IF it.kind = "enemy" THEN TakeDamage(h, self, 1) ELSE h
    [] me.kind = "enemy" ->
         IF it.kind # "player" THEN h
         ELSE IF me.sub = "boss" THEN TakeDamage(h, other, me.dmg)
         ELSE Destroy(TakeDamage(h, other, me.dmg), self)
    [] me.kind = "projectile" ->
         IF \/ me.sub = "player" /\ it.kind \in {"enemy", "barrel"}
            \/ me.sub = "enemy" /\ it.kind = "player"
         THEN Destroy(TakeDamage(h, other, me.dmg), self) ELSE h
    [] me.kind = "barrel" ->
         IF it.kind \in {"projectile", "player"} THEN Destroy(h, self) ELSE h
    [] me.kind = "powerup" ->
         IF it.kind = "player" THEN Destroy(h, self) ELSE h
    [] OTHER -> h

\* checkCollisions without the isActive() test on the pair
RECURSIVE CheckCollisionsOfAll(_, _, _, _)
CheckCollisionsOfAll(h, list, i, j) ==
  IF i > Len(list) THEN h
  ELSE IF j > Len(list) THEN CheckCollisionsOfAll(h, list, i + 1, i + 2)
  ELSE LET a == list[i] b == list[j]
           hit == /\ ShouldCheckCollision(h[a], h[b])
                  /\ Intersects(h[a], h[b])
       IN CheckCollisionsOfAll(
            IF hit THEN OnCollision(OnCollision(h, a, b), b, a) ELSE h,
            list, i, j + 1)

\* PhysicsSystem.checkCollisions: every pair i < j of the array, in order
RECURSIVE CheckCollisions(_, _, _, _)
CheckCollisions(h, list, i, j) ==
  IF i > Len(list) THEN h
  ELSE IF j > Len(list) THEN CheckCollisions(h, list, i + 1, i + 2)
  ELSE LET a == list[i] b == list[j]
           hit == /\ h[a].active /\ h[b].active
                  /\ ShouldCheckCollision(h[a], h[b])
                  /\ Intersects(h[a], h[b])
       IN CheckCollisions(IF hit THEN OnCollision(OnCollision(h, a, b), b, a) ELSE h,
                          list, i, j + 1)

\* Direction of the velocity the constructors set: projectiles fly up,
\* enemies, barrels and power-ups fall; the player stands (no key held).
\* BossEnemy.updateBossMovement: below y = 100 the boss attacks, hovering,
\* and turns back up once it is below 0.7 of the canvas height: it stays in
\* that band, which holds one row.  Its way across is not followed.
Hovers(e) == e.sub = "boss" /\ e.y > 100

Moves(e) ==
  e.kind \in {"enemy", "barrel", "powerup", "projectile"} /\ ~Hovers(e)

\* A power-up drifts at 20 px/s and takes many frames from one row to the
\* next; the others (60 px/s and more) are taken to cross one row per frame.
Drifts(e) == e.kind = "powerup"

NextRow(e) ==
  IF e.kind = "projectile"
  THEN LET above == {y \in RowYs : y < e.y} IN
       IF above = {} THEN e.y ELSE CHOOSE y \in above : \A z \in above : z <= y
  ELSE LET below == {y \in RowYs : y > e.y} IN
       IF below = {} THEN e.y ELSE CHOOSE y \in below : \A z \in below : y <= z

\* The integration moving whatever is in the list
IntegrateAll(h, list, movers) ==
  [id \in DOMAIN h |->
     IF id \in SeqToSet(list) /\ Moves(h[id])
     THEN [h[id] EXCEPT !.y = NextRow(h[id])] ELSE h[id]]

\* First loop of PhysicsSystem.update: the active entities are integrated;
\* those in `movers` reach the next row in this frame.
Integrate(h, list, movers) ==
  [id \in DOMAIN h |->
     IF id \in SeqToSet(list) /\ h[id].active /\ id \in movers
     THEN [h[id] EXCEPT !.y = NextRow(h[id])] ELSE h[id]]

\* ------------------------------------------------------------ LevelManager
\* Rates, multipliers and chances are kept in thousandths.
LevelConfig(n, rate, speed, health, special) ==
  [levelNumber |-> n, enemySpawnRate |-> rate, enemySpeedMultiplier |-> speed,
   enemyHealthMultiplier |-> health, specialEnemyChance |-> special]

\* LevelManager.initializeLevelConfigs
LevelConfigs ==
  <<LevelConfig(1, 800, 1000, 1000, 0),
    LevelConfig(2, 1000, 1100, 1000, 200),
    LevelConfig(3, 1200, 1200, 1200, 300),
    LevelConfig(4, 1400, 1300, 1300, 400),
    LevelConfig(5, 1600, 1400, 1500, 500),
    LevelConfig(6, 1800, 1500, 1700, 600),
    LevelConfig(7, 2000, 1600, 2000, 700),
    LevelConfig(8, 2200, 1700, 2200, 800),
    LevelConfig(9, 2500, 1800, 2500, 900),
    LevelConfig(10, 3000, 2000, 3000, 1000)>>

\* Math.pow(1.1, k) in millionths, rounded down at each factor
RECURSIVE Pow11(_)
Pow11(k) == IF k <= 0 THEN 1000000 ELSE (Pow11(k - 1) * 11) \div 10

\* generateDynamicLevelConfig without the Math.min caps
GenerateUncappedLevelConfig(level) ==
  LET baseMultiplier == Pow11(level - 10) IN
  LevelConfig(level,
              3000 + (level - 10) * 200,
              (2 * baseMultiplier) \div 1000,
              (3 * baseMultiplier) \div 1000,
              1000)

\* LevelManager.generateDynamicLevelConfig
GenerateDynamicLevelConfig(level) ==
  LET baseMultiplier == Pow11(level - 10) IN
  LevelConfig(level,
              Min(3000 + (level - 10) * 200, 8000),
              Min((2 * baseMultiplier) \div 1000, 4000),
              Min((3 * baseMultiplier) \div 1000, 10000),
              1000)

\* LevelManager.getLevelConfig(level); level = 0 stands for the argument
\* left out (`level || this.currentLevel`)
TargetLevel(lm, level) == IF level = 0 THEN lm ELSE level

GetLevelConfig(lm, level) ==
  IF TargetLevel(lm, level) \in DOMAIN LevelConfigs
  THEN LevelConfigs[TargetLevel(lm, level)]
  ELSE GenerateDynamicLevelConfig(TargetLevel(lm, level))

\* ------------------------------------------------------------- GameEngine
\* The mutable state of the engine and of the systems it owns, as one record
\* the handlers transform.
CurG ==
  [gs |-> gameState, hs |-> highScore, lpt |-> levelProgressTimer,
   kills |-> enemiesKilledThisLevel, lm |-> lmLevel, h |-> ent, pl |-> player,
   m |-> CurEM, pu |-> activePowerUps, pmp |-> pmPlayer, run |-> isRunning,
   sched |-> scheduled, fp |-> framePending, el |-> elapsed, dts |-> updateArgs]

\* Objects referenced by nobody (not in the manager, not a player reference)
\* are released: their slot is freed, and a history field naming them is reset.
Reachable(g) ==
  (SeqToSet(g.m.e) \cup SeqToSet(g.m.a) \cup {g.pl, g.pmp}) \cap DOMAIN g.h

RECURSIVE Trim(_)
Trim(h) ==
  IF h # <<>> /\ h[Len(h)] = Freed THEN Trim(SubSeq(h, 1, Len(h) - 1)) ELSE h

Collect(h, keep) ==
  Trim([i \in DOMAIN h |->
          IF i \notin keep THEN Freed
          ELSE IF h[i].from \in keep THEN h[i] ELSE [h[i] EXCEPT !.from = 0]])

\* The engine record and the spawners' accumulators written back
AssignAll(g, t) ==
  /\ gameState' = g.gs
  /\ highScore' = g.hs
  /\ levelProgressTimer' = g.lpt
  /\ enemiesKilledThisLevel' = g.kills
  /\ lmLevel' = g.lm
  /\ ent' = Collect(g.h, Reachable(g))
  /\ player' = g.pl
  /\ entities' = g.m.e
  /\ entitiesToAdd' = g.m.a
  /\ entitiesToRemove' = g.m.r
  /\ entitiesByType' = g.m.t
  /\ activePowerUps' = g.pu
  /\ pmPlayer' = g.pmp
  /\ isRunning' = g.run
  /\ scheduled' = g.sched
  /\ framePending' = g.fp
  /\ elapsed' = g.el
  /\ updateArgs' = g.dts
  /\ spawnTimers' = t
  /\ lastCall' = lastCall

Assign(g) == AssignAll(g, spawnTimers)

FreshGameState(status) ==
  [currentLevel |-> 1, score |-> 0, lives |-> InitialLives, gameStatus |-> status]

\* initializeGame without its entityManager.clear()
InitializeGameKeeping(g) ==
  [g EXCEPT !.h = Store(g.h, NewPlayer), !.pl = Alloc(g.h), !.pmp = Alloc(g.h),
            !.m = EMAddEntity(g.m, Alloc(g.h))]

\* GameEngine.initializeGame.  The objects of the previous game are
\* unreachable after clear() and the two player references are replaced, so
\* the heap starts over with the new player.
InitializeGame(g) ==
  [g EXCEPT !.h = <<NewPlayer>>, !.pl = 1, !.pmp = 1,
            !.m = EMAddEntity(EMClear, 1)]

\* requestAnimationFrame(this.gameLoop) assigned to animationFrameId, and
\* the cancelAnimationFrame(animationFrameId) of stop and returnToMenu
RequestFrame(g) == [g EXCEPT !.sched = g.sched + 1, !.fp = TRUE]

CancelFrame(g) ==
  IF g.fp THEN [g EXCEPT !.sched = g.sched - 1, !.fp = FALSE] ELSE g

\* The delta of gameLoop without the cap
DeltaTimeUncapped(gap) == gap

\* gameLoop: Math.min((currentTime - lastTime) / 1000, 1/30), in ms
DeltaTime(gap) == Min(gap, MaxDeltaMs)

\* GameEngine.start, up to its call of gameLoop()
StartGame(g) ==
  IF g.run THEN g
  ELSE [InitializeGame([g EXCEPT !.run = TRUE, !.gs.gameStatus = "playing"])
          EXCEPT !.el = 0]

\* GameEngine.stop
StopGame(g) == CancelFrame([g EXCEPT !.run = FALSE])

\* GameEngine.restart
Restart(g) ==
  LET c == PUClear(PU(g.pu, g.h), g.pmp) IN
  InitializeGame([g EXCEPT !.hs = Max(g.hs, g.gs.score),
                           !.gs = FreshGameState("playing"),
                           !.lpt = 0, !.kills = 0,
                           !.pu = c.pu, !.h = c.h])

\* GameEngine.pause, GameEngine.resume
Pause(g) == [g EXCEPT !.gs.gameStatus = "paused"]
Resume(g) == [g EXCEPT !.gs.gameStatus = "playing"]

\* GameEngine.returnToMenu.  Its last statement calls gameLoop(): that call
\* finds no time gone since lastTime was set, its update runs
\* handleGameStateInput once more on the same key state (the input snapshot
\* is only taken afterwards), which with the status menu can only reach
\* start(), and it requests a frame of its own.
ReturnToMenu(g, keys) ==
  LET g0 == CancelFrame(g)
      c == PUClear(PU(g0.pu, g0.h), g0.pmp)
      g1 == [g0 EXCEPT !.m = EMClear, !.pu = c.pu, !.h = c.h,
                       !.gs = FreshGameState("menu"),
                       !.lpt = 0, !.kills = 0, !.run = TRUE, !.el = 0,
                       !.dts = Append(g0.dts, DeltaTime(0))]
  IN RequestFrame(IF "start" \in keys THEN StartGame(g1) ELSE g1)

\* handleGameStateInput taking the pause key whatever the status is
HandleGameStateInputLoose(g, keys) ==
  LET st == g.gs.gameStatus IN
  IF st = "menu" /\ "start" \in keys THEN StartGame(g)
  ELSE IF st = "game_over" /\ keys \cap {"restart", "start"} # {}
       THEN IF "restart" \in keys THEN Restart(g) ELSE ReturnToMenu(g, keys)
  ELSE IF st # "paused" /\ "pause" \in keys THEN Pause(g)
  ELSE IF st = "paused"
       THEN IF "pause" \in keys THEN Resume(g)
            ELSE IF "restart" \in keys THEN Restart(g) ELSE g
  ELSE g

\* GameEngine.handleGameStateInput, keys = the keys pressed in this frame
HandleGameStateInput(g, keys) ==
  LET st == g.gs.gameStatus IN
  IF st = "menu" /\ "start" \in keys THEN StartGame(g)
  ELSE IF st = "game_over"
       THEN IF "restart" \in keys THEN Restart(g)
            ELSE IF "start" \in keys THEN ReturnToMenu(g, keys) ELSE g
  ELSE IF st = "playing" /\ "pause" \in keys THEN Pause(g)
  ELSE IF st = "paused"
       THEN IF "pause" \in keys THEN Resume(g)
            ELSE IF "restart" \in keys THEN Restart(g) ELSE g
  ELSE g

\* GameEngine.createPlayerProjectile: getMultiShotCount() projectiles at the
\* shoot position, each with damage getDamageMultiplier().  The spread of a
\* multi-shot stays inside the player's column.
RECURSIVE StageProjectiles(_, _, _, _, _)
StageProjectiles(g, n, x, y, damage) ==
  IF n = 0 THEN g
  ELSE StageProjectiles(
         [g EXCEPT !.h = Store(g.h, NewProjectile(x, y, damage)),
                   !.m = EMAddEntity(g.m, Alloc(g.h))],
         n - 1, x, y, damage)

\* The fan opened from straight up to one side only
ShotAngleFromZero(i, count) == (SpreadAngle \div (count - 1)) * i

\* createPlayerProjectile: startAngle + angleStep * i
ShotAngle(i, count) ==
  -(SpreadAngle \div 2) + (SpreadAngle \div (count - 1)) * i

\* The for loop of createPlayerProjectile, from i on
RECURSIVE StageFan(_, _, _, _, _, _)
StageFan(g, i, count, x, y, damage) ==
  IF i >= count THEN g
  ELSE StageFan(
         [g EXCEPT !.h = Store(g.h, AimedProjectile(x, y, damage, ShotAngle(i, count))),
                   !.m = EMAddEntity(g.m, Alloc(g.h))],
         i + 1, count, x, y, damage)

CreatePlayerProjectile(g, x, y) ==
  IF GetMultiShotCount(g.pu) = 1
  THEN StageProjectiles(g, 1, x, y, GetDamageMultiplier(g.pu))
  ELSE StageFan(g, 0, GetMultiShotCount(g.pu), x, y, GetDamageMultiplier(g.pu))

\* GameEngine.handleAutoShooting; ready = Player.shouldAutoShoot().
\* Player.shoot returns (position.x, position.y - size.y / 2 - 5).
HandleAutoShooting(g, ready) ==
  IF g.pl # 0 /\ g.h[g.pl].active /\ ready
  THEN CreatePlayerProjectile(g, g.h[g.pl].x,
                              g.h[g.pl].y - Size(g.h[g.pl]).y \div 2 - 5)
  ELSE g

\* Math.random() in thousandths: a value inside every interval that the
\* thresholds of chooseEnemyType (tenths) cut out of [0, 1)
Randoms == {50 * k : k \in 0..19} \cup {999}

\* EnemySpawner.chooseEnemyType at spawner level `level`, random being the
\* one Math.random() it draws
ChooseEnemyType(lm, level, random) ==
  IF random < GetLevelConfig(lm, level).specialEnemyChance
  THEN IF level >= 3
       THEN IF random < 700 THEN "fast" ELSE "heavy"
       ELSE "fast"
  ELSE "basic"

\* The kinds chooseEnemyType can return at a level
EnemyChoices(level) == {ChooseEnemyType(level, level, r) : r \in Randoms}

\* EnemySpawner.spawnEnemy and BarrelSpawner.spawnBarrel
SpawnEntity(g, e) ==
  [g EXCEPT !.h = Store(g.h, e), !.m = EMAddEntity(g.m, Alloc(g.h))]

\* EnemySpawner.spawnBoss with no look at the bosses there are
SpawnBossUnguarded(g, x) ==
  SpawnEntity(g, NewBoss(x, GetLevelConfig(g.lm, g.gs.currentLevel).enemyHealthMultiplier))

\* EnemySpawner.spawnBoss: not while the kind index holds a boss
SpawnBoss(g, x) ==
  IF \E id \in SeqToSet(GetEntitiesByEntityType(g.m, "enemy")) : g.h[id].sub = "boss"
  THEN g
  ELSE SpawnEntity(g, NewBoss(x, GetLevelConfig(g.lm, g.gs.currentLevel).enemyHealthMultiplier))

\* The boss part of EnemySpawner.update: currentLevel >= 3 and the boss
\* accumulator at its interval
BossSpawnerFire(g, due, x) ==
  IF g.gs.currentLevel >= 3 /\ due THEN SpawnBoss(g, x) ELSE g

\* BarrelSpawner.update once its accumulator has reached the interval:
\* at most 3 barrels in the kind index
BarrelSpawnerFire(g, powerUpType, x) ==
  IF GetEntityCountByType(g.m, "barrel") < MaxBarrels
  THEN SpawnEntity(g, NewBarrel(powerUpType, x)) ELSE g

\* The engine record g and the accumulators t a spawner works on
Spawners(g, t) == [g |-> g, t |-> t]

\* EnemySpawner.update taking the interval off its accumulator at a spawn
EnemySpawnerUpdateCarrying(g, t, dt, kind, x, bossX) ==
  LET level == g.gs.currentLevel
      spawnRate == GetLevelConfig(g.lm, level).enemySpawnRate
      t1 == [t EXCEPT !.enemy = t.enemy + dt, !.boss = t.boss + dt]
      bossDue == level >= 3 /\ t1.boss >= BossSpawnInterval
      g1 == BossSpawnerFire(g, t1.boss >= BossSpawnInterval, bossX)
      t2 == IF bossDue THEN [t1 EXCEPT !.boss = 0] ELSE t1
      due == t2.enemy * spawnRate >= 1000000
  IN IF due
     THEN Spawners(SpawnEntity(g1, NewEnemy(kind, x)),
                   [t2 EXCEPT !.enemy = t2.enemy - 1000000 \div spawnRate])
     ELSE Spawners(g1, t2)

\* EnemySpawner.update(deltaTime, entityManager, level), the level being
\* gameState.currentLevel; spawnRate is per second in thousandths, so the
\* accumulator has reached 1 / spawnRate when ms * spawnRate >= 10^6.
\* kind, x and bossX stand for the random draws.
EnemySpawnerUpdate(g, t, dt, kind, x, bossX) ==
  LET level == g.gs.currentLevel
      spawnRate == GetLevelConfig(g.lm, level).enemySpawnRate
      t1 == [t EXCEPT !.enemy = t.enemy + dt, !.boss = t.boss + dt]
      bossDue == level >= 3 /\ t1.boss >= BossSpawnInterval
      g1 == BossSpawnerFire(g, t1.boss >= BossSpawnInterval, bossX)
      t2 == IF bossDue THEN [t1 EXCEPT !.boss = 0] ELSE t1
      due == t2.enemy * spawnRate >= 1000000
  IN IF due
     THEN Spawners(SpawnEntity(g1, NewEnemy(kind, x)), [t2 EXCEPT !.enemy = 0])
     ELSE Spawners(g1, t2)

\* BarrelSpawner.updateSpawnRate, barrels per second in hundredths
BarrelSpawnRate(level) == Min(10 + (level - 1) * 2, 30)

\* BarrelSpawner.update(deltaTime, entityManager, level)
BarrelSpawnerUpdate(g, t, dt, powerUpType, x) ==
  LET t1 == [t EXCEPT !.barrel = t.barrel + dt]
      due == t1.barrel * BarrelSpawnRate(g.gs.currentLevel) >= 100000
  IN IF due
     THEN Spawners(BarrelSpawnerFire(g, powerUpType, x), [t1 EXCEPT !.barrel = 0])
     ELSE Spawners(g, t1)

\* GameEngine.cullOffScreenEntities
OffScreen(e) ==
  \/ e.x < -CullMargin \/ e.x > CanvasWidth + CullMargin
  \/ e.y < -CullMargin \/ e.y > CanvasHeight + CullMargin

Culled(e) ==
  /\ e.kind # "player"
  /\ e.sub # "boss"
  /\ OffScreen(e)
  /\ \/ e.kind \in {"projectile", "particle"}
     \/ e.kind = "enemy" /\ e.y > CanvasHeight + CullMargin

CullOffScreenEntities(g) ==
  [g EXCEPT !.h = [id \in DOMAIN g.h |->
                     IF id \in SeqToSet(g.m.e) /\ Culled(g.h[id])
                     THEN [g.h[id] EXCEPT !.active = FALSE] ELSE g.h[id]]]

\* GameEngine.addScore
AddScore(g, points) ==
  [g EXCEPT !.gs.score = g.gs.score + points, !.kills = g.kills + 1]

\* GameEngine.spawnPowerUpFromBarrel
SpawnPowerUpFromBarrel(g, barrel) ==
  SpawnEntity(g, NewPowerUp(g.h[barrel].sub, g.h[barrel].x, g.h[barrel].y, barrel))

\* First loop of GameEngine.handleEntityDestruction over getAllEntities()
RECURSIVE ScanDestroyed(_, _)
ScanDestroyed(g, list) ==
  IF list = <<>> THEN g
  ELSE LET id == Head(list) e == g.h[id] IN
       ScanDestroyed(
         IF e.active THEN g
         ELSE IF e.kind = "enemy"
              THEN [AddScore(g, e.points) EXCEPT !.h[id].scored = e.scored + 1]
         ELSE IF e.kind = "barrel" THEN SpawnPowerUpFromBarrel(g, id)
         ELSE g,
         Tail(list))

\* Second loop: every enemy of the kind index below the bottom margin costs
\* the active player one point of damage
RECURSIVE DamageForEscaped(_, _)
DamageForEscaped(g, list) ==
  IF list = <<>> THEN g
  ELSE DamageForEscaped(
         IF /\ g.h[Head(list)].y > CanvasHeight + BottomDamageMargin
            /\ g.pl # 0 /\ g.h[g.pl].active
         THEN [g EXCEPT !.h = TakeDamage(g.h, g.pl, 1)] ELSE g,
         Tail(list))

\* GameEngine.applyPowerUp followed by powerUp.destroy()
CollectPowerUp(g, id) ==
  LET s == AddPowerUp(PU(g.pu, g.h), g.pmp, Config(g.h[id].sub))
  IN AddScore([g EXCEPT !.pu = s.pu, !.h = Destroy(s.h, id)], PowerUpPoints)

\* GameEngine.handlePowerUpCollection
RECURSIVE CollectFrom(_, _)
CollectFrom(g, list) ==
  IF list = <<>> THEN g
  ELSE CollectFrom(
         IF DistanceBelow(g.h[g.pl], g.h[Head(list)], PickupRadius)
         THEN CollectPowerUp(g, Head(list)) ELSE g,
         Tail(list))

HandlePowerUpCollection(g) ==
  IF g.pl = 0 \/ ~g.h[g.pl].active THEN g
  ELSE CollectFrom(g, GetEntitiesByEntityType(g.m, "powerup"))

\* GameEngine.handleEntityDestruction
HandleEntityDestruction(g) ==
  LET g1 == ScanDestroyed(g, GetAllEntities(g.m))
      g2 == DamageForEscaped(g1, GetEntitiesByEntityType(g1.m, "enemy"))
  IN HandlePowerUpCollection(g2)

\* LevelManager.shouldAdvanceLevel, on LevelManager's own current level
ShouldAdvanceLevel(lm, timeElapsed, enemiesKilled) ==
  timeElapsed >= LevelDurationMs \/ enemiesKilled >= 10 + lm * 5

\* advanceLevel: "Increase player fire rate slightly each level"
LevelFireRate(h, p) == SetFireRate(h, p, Max(100, h[p].fireRate - 20))

\* advanceLevel awarding the bonus through addScore, after the reset
AdvanceLevelByAddScore(g) ==
  LET lvl == g.gs.currentLevel + 1 IN
  AddScore([g EXCEPT !.gs.currentLevel = lvl, !.lm = lvl, !.lpt = 0, !.kills = 0,
                     !.h = IF g.pl = 0 THEN g.h ELSE LevelFireRate(g.h, g.pl)],
           lvl * 100)

\* GameEngine.advanceLevel
AdvanceLevel(g) ==
  LET lvl == g.gs.currentLevel + 1 IN
  [g EXCEPT !.gs.currentLevel = lvl, !.lm = lvl, !.lpt = 0, !.kills = 0,
            !.gs.score = g.gs.score + lvl * 100,
            !.h = IF g.pl = 0 THEN g.h ELSE LevelFireRate(g.h, g.pl)]

\* GameEngine.updateLevelProgression
UpdateLevelProgression(g, dt) ==
  LET g1 == [g EXCEPT !.lpt = g.lpt + dt] IN
  IF ShouldAdvanceLevel(g1.lm, g1.lpt, g1.kills) THEN AdvanceLevel(g1) ELSE g1

\* clearNearbyEnemies reaching only as far as the pickup radius
ClearTouchingEnemies(g) ==
  [g EXCEPT !.h = [id \in DOMAIN g.h |->
                     IF /\ id \in SeqToSet(GetEntitiesByEntityType(g.m, "enemy"))
                        /\ DistanceBelow(g.h[g.pl], g.h[id], PickupRadius)
                     THEN [g.h[id] EXCEPT !.active = FALSE] ELSE g.h[id]]]

\* GameEngine.clearNearbyEnemies
ClearNearbyEnemies(g) ==
  [g EXCEPT !.h = [id \in DOMAIN g.h |->
                     IF /\ id \in SeqToSet(GetEntitiesByEntityType(g.m, "enemy"))
                        /\ DistanceBelow(g.h[g.pl], g.h[id], ClearRadius)
                     THEN [g.h[id] EXCEPT !.active = FALSE] ELSE g.h[id]]]

\* checkGameOver ending the game only once the lives are below zero
CheckGameOverBelowZero(g) ==
  IF g.pl # 0 /\ ~g.h[g.pl].active
  THEN LET g1 == [g EXCEPT !.gs.lives = g.gs.lives - 1] IN
       IF g1.gs.lives < 0
       THEN [g1 EXCEPT !.hs = Max(g1.hs, g1.gs.score),
                       !.gs.gameStatus = "game_over"]
       ELSE ClearNearbyEnemies(
              [g1 EXCEPT !.h = Store(g1.h, NewPlayer),
                         !.pl = Alloc(g1.h), !.pmp = Alloc(g1.h),
                         !.m = EMAddEntity(g1.m, Alloc(g1.h))])
  ELSE g

\* checkGameOver respawning by resetting the player object it already has
CheckGameOverReviving(g) ==
  IF g.pl # 0 /\ ~g.h[g.pl].active
  THEN LET g1 == [g EXCEPT !.gs.lives = g.gs.lives - 1] IN
       IF g1.gs.lives <= 0
       THEN [g1 EXCEPT !.hs = Max(g1.hs, g1.gs.score),
                       !.gs.gameStatus = "game_over"]
       ELSE ClearNearbyEnemies([g1 EXCEPT !.h[g1.pl] = NewPlayer])
  ELSE g

\* GameEngine.checkGameOver
CheckGameOver(g) ==
  IF g.pl # 0 /\ ~g.h[g.pl].active
  THEN LET g1 == [g EXCEPT !.gs.lives = g.gs.lives - 1] IN
       IF g1.gs.lives <= 0
       THEN [g1 EXCEPT !.hs = Max(g1.hs, g1.gs.score),
                       !.gs.gameStatus = "game_over"]
       ELSE ClearNearbyEnemies(
              [g1 EXCEPT !.h = Store(g1.h, NewPlayer),
                         !.pl = Alloc(g1.h), !.pmp = Alloc(g1.h),
                         !.m = EMAddEntity(g1.m, Alloc(g1.h))])
  ELSE g

\* ------------------------------------------------------------------ actions
\* The spawners as constructed: nothing accumulated
NoTimers == [enemy |-> 0, boss |-> 0, barrel |-> 0]

\* State after `new GameEngine(canvas)`
Init ==
  /\ pc = "idle"
  /\ gameState = FreshGameState("menu")
  /\ isRunning = FALSE
  /\ highScore = 0
  /\ levelProgressTimer = 0
  /\ enemiesKilledThisLevel = 0
  /\ lmLevel = 1
  /\ ent = <<>>
  /\ player = 0
  /\ entities = <<>>
  /\ entitiesToAdd = <<>>
  /\ entitiesToRemove = <<>>
  /\ entitiesByType = NoIndex
  /\ activePowerUps = <<>>
  /\ pmPlayer = 0
  /\ scheduled = 0
  /\ framePending = FALSE
  /\ elapsed = 0
  /\ updateArgs = <<>>
  /\ spawnTimers = NoTimers
  /\ lastCall = NoCall

\* Time passes between two events of the page
Tick ==
  /\ pc = "idle"
  /\ elapsed = 0
  /\ \E gap \in Gaps : elapsed' = gap
  /\ UNCHANGED <<pc, gameState, isRunning, highScore, levelProgressTimer,
                 enemiesKilledThisLevel, lmLevel, ent, player, entities,
                 entitiesToAdd, entitiesToRemove, entitiesByType,
                 activePowerUps, pmPlayer, scheduled, framePending,
                 updateArgs, spawnTimers, lastCall>>

\* GameEngine.start() called by the page; it ends by calling gameLoop()
Start ==
  /\ pc = "idle"
  /\ ~isRunning
  /\ Assign(StartGame(CurG))
  /\ pc' = "loop"

\* GameEngine.stop() called by the page, between two frames
Stop ==
  /\ pc = "idle"
  /\ isRunning
  /\ Assign(StopGame(CurG))
  /\ pc' = "idle"

\* A frame callback fires: the one animationFrameId names (own) or another
FireFrame(g, own) == [g EXCEPT !.sched = g.sched - 1, !.fp = g.fp /\ ~own]

\* gameLoop goes on whatever the running flag says
FrameRunsAlways(g) == TRUE

\* gameLoop: if (!this.isRunning) return
FrameRuns(g) == g.run

\* gameLoop whose update lets the level timer run whatever the status is
GameLoopCallTiming(g, keys) ==
  LET dt == DeltaTime(g.el)
      g1 == HandleGameStateInput([g EXCEPT !.el = 0, !.dts = <<dt>>], keys)
  IN RequestFrame(IF g1.gs.gameStatus = "playing" THEN g1
                  ELSE [g1 EXCEPT !.lpt = g1.lpt + dt])

\* GameEngine.gameLoop past the running test, up to the status test of
\* update (handleGameStateInput, inputSystem.update), with the frame it
\* requests at its end.  A frame that is not playing has no further effect
\* on the state.
GameLoopCall(g, keys) ==
  LET dt == DeltaTime(g.el) IN
  RequestFrame(HandleGameStateInput([g EXCEPT !.el = 0, !.dts = <<dt>>], keys))

\* deltaTime of the update call that is under way
deltaTime == updateArgs[1]

\* gameLoop called by start() (pc = "loop") or as a frame callback: the
\* display calls back some time after the request, and the frames of play
\* that are explored are those a full step of time apart.
Called(own) == IF pc = "idle" THEN FireFrame(CurG, own) ELSE CurG

Loop(keys, own, open) ==
  LET fired == pc = "idle"
      g0 == Called(own)
      g == GameLoopCall(g0, keys)
      playing == g.gs.gameStatus = "playing"
  IN /\ fired => /\ elapsed > 0
                 /\ scheduled > 0
                 /\ own => framePending
                 /\ ~own => scheduled > (IF framePending THEN 1 ELSE 0)
     /\ IF FrameRuns(g0)
        THEN /\ playing => open /\ (fired => elapsed >= MaxDeltaMs)
             /\ g.sched <= MaxCallbacks
             /\ Assign(g)
             /\ pc' = IF playing THEN "shoot" ELSE "idle"
        ELSE /\ Assign([g0 EXCEPT !.dts = <<>>])
             /\ pc' = "idle"

ShortRun(g) == g.lpt < MaxFrames * MaxDeltaMs

GameLoop ==
  /\ pc \in {"idle", "loop"}
  /\ \E keys \in KeyInputs, own \in BOOLEAN :
       Loop(keys, own, ShortRun(GameLoopCall(Called(own), keys)))

\* handleAutoShooting
Shoot(ready) ==
  /\ ready => Population(ent) < MaxIds
  /\ Assign(HandleAutoShooting(CurG, ready))

\* No time has gone in the frame start() runs itself: the gun of the new
\* player is not ready, a spawner that was not due in the frame before is
\* not due at the same level, and nothing moves.
Due == IF deltaTime = 0 THEN {FALSE} ELSE BOOLEAN

AutoShoot ==
  /\ pc = "shoot"
  /\ \E ready \in Due : Shoot(ready)
  /\ pc' = "spawn"

\* enemySpawner.update and barrelSpawner.update
SpawnFrom(enemyFires, enemyXs, barrelFires) ==
     \E enemy \in enemyFires, barrel \in barrelFires :
     \E t \in EnemyChoices(gameState.currentLevel), ex \in enemyXs,
        k \in BarrelDraws, bx \in BarrelColXs :
       LET g1 == IF enemy /\ Population(ent) < MaxIds
                 THEN SpawnEntity(CurG, NewEnemy(t, ex)) ELSE CurG
           g2 == IF barrel /\ Population(g1.h) < MaxIds
                 THEN BarrelSpawnerFire(g1, k, bx) ELSE g1
       IN Assign(g2)

Spawn ==
  /\ pc = "spawn"
  /\ SpawnFrom(Due, EnemyColXs, Due)
  /\ pc' = "entities"

\* entityManager.update
EntityManagerUpdate ==
  /\ pc = "entities"
  /\ LET r == EMUpdate(CurEM, ent, deltaTime) IN
     Assign([CurG EXCEPT !.m = r.m, !.h = r.h])
  /\ pc' = "powerups"

\* powerUpManager.update
PowerUpManagerUpdate ==
  /\ pc = "powerups"
  /\ LET s == PUUpdate(PU(activePowerUps, ent), pmPlayer, deltaTime) IN
     Assign([CurG EXCEPT !.pu = s.pu, !.h = s.h])
  /\ pc' = "cull"

\* cullOffScreenEntities
Cull ==
  /\ pc = "cull"
  /\ Assign(CullOffScreenEntities(CurG))
  /\ pc' = "physics"

\* physicsSystem.update(deltaTime, getAllEntities())
PhysicsUpdate ==
  /\ pc = "physics"
  /\ \E slow \in SUBSET {id \in SeqToSet(entities) : ent[id].active /\ Drifts(ent[id])} :
     LET movers == {id \in SeqToSet(entities) :
                      deltaTime > 0 /\ Moves(ent[id]) /\ id \notin slow} IN
       Assign([CurG EXCEPT !.h = CheckCollisions(Integrate(ent, entities, movers),
                                                 entities, 1, 2)])
  /\ pc' = "destruction"

\* handleEntityDestruction
EntityDestruction ==
  /\ pc = "destruction"
  /\ Assign(HandleEntityDestruction(CurG))
  /\ pc' = "level"

\* updateLevelProgression
LevelProgression ==
  /\ pc = "level"
  /\ Assign(UpdateLevelProgression(CurG, deltaTime))
  /\ pc' = "gameover"

\* checkGameOver, the last gameplay step of the frame
GameOverCheck ==
  /\ pc = "gameover"
  /\ Assign(CheckGameOver(CurG))
  /\ pc' = "idle"

Next ==
  \/ Tick
  \/ Start
  \/ Stop
  \/ GameLoop
  \/ AutoShoot
  \/ Spawn
  \/ EntityManagerUpdate
  \/ PowerUpManagerUpdate
  \/ Cull
  \/ PhysicsUpdate
  \/ EntityDestruction
  \/ LevelProgression
  \/ GameOverCheck

Spec == Init /\ [][Next]_vars

\* ------------------------------------------------------------------ siege
\* Longer runs of the same engine in which only enemies arrive, all of them
\* in the lane that reaches the player beside the line of fire.
SiegeRun(g) == g.lpt < MaxSiegeFrames * MaxDeltaMs

SiegeLoop ==
  /\ pc \in {"idle", "loop"}
  /\ \E keys \in KeyInputs, own \in BOOLEAN :
       Loop(keys, own, SiegeRun(GameLoopCall(Called(own), keys)))

HoldFire ==
  /\ pc = "shoot"
  /\ Shoot(FALSE)
  /\ pc' = "spawn"

SiegeSpawn ==
  /\ pc = "spawn"
  /\ SpawnFrom(Due, SiegeColXs, {FALSE})
  /\ pc' = "entities"

NextSiege ==
  \/ Tick
  \/ Start
  \/ Stop
  \/ SiegeLoop
  \/ HoldFire
  \/ SiegeSpawn
  \/ EntityManagerUpdate
  \/ PowerUpManagerUpdate
  \/ Cull
  \/ PhysicsUpdate
  \/ EntityDestruction
  \/ LevelProgression
  \/ GameOverCheck

SpecSiege == Init /\ [][NextSiege]_vars

\* ------------------------------------------------------- past the player
\* Runs in which only enemies arrive, in a lane that misses the player: they
\* fall to the bottom of the canvas.
FallRun(g) == g.lpt < MaxFallFrames * MaxDeltaMs

FallLoop ==
  /\ pc \in {"idle", "loop"}
  /\ \E keys \in KeyInputs, own \in BOOLEAN :
       Loop(keys, own, FallRun(GameLoopCall(Called(own), keys)))

FallSpawn ==
  /\ pc = "spawn"
  /\ SpawnFrom(Due, FallColXs, {FALSE})
  /\ pc' = "entities"

NextFall ==
  \/ Tick
  \/ Start
  \/ Stop
  \/ FallLoop
  \/ HoldFire
  \/ FallSpawn
  \/ EntityManagerUpdate
  \/ PowerUpManagerUpdate
  \/ Cull
  \/ PhysicsUpdate
  \/ EntityDestruction
  \/ LevelProgression
  \/ GameOverCheck

SpecFall == Init /\ [][NextFall]_vars

\* ------------------------------------------------------------ level runs
\* Runs of the engine long enough for the level to advance.  The enemies are
\* left out: how many destroyed enemies the destruction scan meets in a frame
\* is an input of the frame, each counted by addScore as a basic enemy.
LevelRun(g) ==
  /\ g.gs.currentLevel <= MaxLevel
  /\ \/ g.lpt < MaxLevelFrames * MaxDeltaMs
     \/ g.lpt >= QuietFrames * MaxDeltaMs

LevelLoop ==
  /\ pc \in {"idle", "loop"}
  /\ \E keys \in KeyInputs, own \in BOOLEAN :
       Loop(keys, own, LevelRun(GameLoopCall(Called(own), keys)))

SpawnersIdle ==
  /\ pc = "spawn"
  /\ SpawnFrom({FALSE}, SiegeColXs, {FALSE})
  /\ pc' = "entities"

\* addScore(points) for each of `kills` destroyed enemies
RECURSIVE ScoreKills(_, _)
ScoreKills(g, kills) ==
  IF kills = 0 THEN g
  ELSE ScoreKills(AddScore(g, EnemyPoints("basic")), kills - 1)

\* handleEntityDestruction in a frame whose scan meets `kills` destroyed enemies
KillsScored ==
  /\ pc = "destruction"
  /\ \E kills \in KillCounts :
       /\ kills > 0 => /\ deltaTime > 0
                       /\ levelProgressTimer < MaxLevelFrames * MaxDeltaMs
       /\ Assign(ScoreKills(HandleEntityDestruction(CurG), kills))
  /\ pc' = "level"

\* GameEngine.update of a playing frame in which the gun and the spawners are
\* not due and every falling or flying entity reaches its next row
UpdateQuiet(g, dt) ==
  LET r == EMUpdate(g.m, g.h, dt)
      g1 == [g EXCEPT !.m = r.m, !.h = r.h]
      s == PUUpdate(PU(g1.pu, g1.h), g1.pmp, dt)
      g2 == CullOffScreenEntities([g1 EXCEPT !.pu = s.pu, !.h = s.h])
      movers == {id \in SeqToSet(g2.m.e) : Moves(g2.h[id])}
      g3 == [g2 EXCEPT !.h = CheckCollisions(Integrate(g2.h, g2.m.e, movers),
                                             g2.m.e, 1, 2)]
  IN CheckGameOver(UpdateLevelProgression(HandleEntityDestruction(g3), dt))

\* One frame callback, dt after the frame before, with no key pressed
FrameQuiet(g, dt) ==
  LET g1 == GameLoopCall([FireFrame(g, TRUE) EXCEPT !.el = dt], {}) IN
  IF g1.gs.gameStatus = "playing" THEN UpdateQuiet(g1, g1.dts[1]) ELSE g1

\* QuietFrames consecutive frames with no key pressed, from a state in which
\* such a frame changes nothing but the level timer: as long as the level
\* does not advance, each of them adds dt to the timer and leaves the rest.
Frames(g, n, dt) == [g EXCEPT !.lpt = g.lpt + n * dt]

\* A stretch of QuietFrames frames that ends before the level advances
QuietRun ==
  /\ pc = "idle"
  /\ isRunning
  /\ framePending
  /\ elapsed = 0
  /\ gameState.gameStatus = "playing"
  /\ levelProgressTimer < MaxLevelFrames * MaxDeltaMs
  /\ FrameQuiet(CurG, MaxDeltaMs) = Frames(CurG, 1, MaxDeltaMs)
  /\ LET g == Frames(CurG, QuietFrames, MaxDeltaMs) IN
       /\ ~ShouldAdvanceLevel(g.lm, g.lpt, g.kills)
       /\ Assign(g)
  /\ pc' = "idle"

NextLevel ==
  \/ Tick
  \/ Start
  \/ Stop
  \/ LevelLoop
  \/ HoldFire
  \/ SpawnersIdle
  \/ EntityManagerUpdate
  \/ PowerUpManagerUpdate
  \/ Cull
  \/ PhysicsUpdate
  \/ KillsScored
  \/ LevelProgression
  \/ GameOverCheck
  \/ QuietRun

SpecLevel == Init /\ [][NextLevel]_vars

\* ------------------------------------------------------------- boss runs
\* Runs that reach level 3 by kills, as the level runs do, and in which the
\* boss is the only thing that arrives.
BossRun(g) ==
  /\ g.gs.currentLevel <= BossLevel
  /\ g.lpt < MaxLevelFrames * MaxDeltaMs

BossLoop ==
  /\ pc \in {"idle", "loop"}
  /\ \E keys \in KeyInputs, own \in BOOLEAN :
       Loop(keys, own, BossRun(GameLoopCall(Called(own), keys)))

BossSpawn ==
  /\ pc = "spawn"
  /\ \E due \in Due, x \in BossXs :
       /\ Population(ent) < MaxIds
       /\ Assign(BossSpawnerFire(CurG, due, x))
  /\ pc' = "entities"

NextBoss ==
  \/ Tick
  \/ Start
  \/ Stop
  \/ BossLoop
  \/ HoldFire
  \/ BossSpawn
  \/ EntityManagerUpdate
  \/ PowerUpManagerUpdate
  \/ Cull
  \/ PhysicsUpdate
  \/ KillsScored
  \/ LevelProgression
  \/ GameOverCheck

SpecBoss == Init /\ [][NextBoss]_vars

\* ---------------------------------------------------- PowerUpManager alone
\* The PowerUpManager driven call by call, as the engine holds it once
\* initializeGame has set its player.
InitPU ==
  /\ pc = "api"
  /\ gameState = FreshGameState("playing")
  /\ isRunning = TRUE
  /\ highScore = 0
  /\ levelProgressTimer = 0
  /\ enemiesKilledThisLevel = 0
  /\ lmLevel = 1
  /\ ent = <<NewPlayer>>
  /\ player = 1
  /\ entities = <<>>
  /\ entitiesToAdd = <<1>>
  /\ entitiesToRemove = <<>>
  /\ entitiesByType = NoIndex
  /\ activePowerUps = <<>>
  /\ pmPlayer = 1
  /\ scheduled = 0
  /\ framePending = FALSE
  /\ elapsed = 0
  /\ updateArgs = <<>>
  /\ spawnTimers = NoTimers
  /\ lastCall = NoCall

PUFrame == <<pc, gameState, isRunning, highScore, levelProgressTimer,
             enemiesKilledThisLevel, lmLevel, player, entities, entitiesToAdd,
             entitiesToRemove, entitiesByType, pmPlayer, scheduled,
             framePending, elapsed, updateArgs,
                 spawnTimers>>

\* powerUpManager.addPowerUp(config)
PUAdd ==
  /\ pc = "api"
  /\ \E type \in PUKinds :
       LET s == AddPowerUp(PU(activePowerUps, ent), pmPlayer, Config(type)) IN
       /\ activePowerUps' = s.pu
       /\ ent' = s.h
       /\ lastCall' = Call("addPowerUp", type, 0, activePowerUps, ent, pmPlayer)
  /\ UNCHANGED PUFrame

\* powerUpManager.update(deltaTime)
PUTick ==
  /\ pc = "api"
  /\ \E dt \in PUSteps :
       LET s == PUUpdate(PU(activePowerUps, ent), pmPlayer, dt) IN
       /\ activePowerUps' = s.pu
       /\ ent' = s.h
       /\ lastCall' = Call("update", "none", dt, activePowerUps, ent, pmPlayer)
  /\ UNCHANGED PUFrame

\* powerUpManager.clear()
PUReset ==
  /\ pc = "api"
  /\ LET s == PUClear(PU(activePowerUps, ent), pmPlayer) IN
       /\ activePowerUps' = s.pu
       /\ ent' = s.h
       /\ lastCall' = Call("clear", "none", 0, activePowerUps, ent, pmPlayer)
  /\ UNCHANGED PUFrame

\* The fire-rate step of advanceLevel, the other writer of the player's rate
PULevelUp ==
  /\ pc = "api"
  /\ ent[pmPlayer].fireRate > BaseFireRate - 20 * MaxLevelUps
  /\ ent' = LevelFireRate(ent, pmPlayer)
  /\ lastCall' = Call("advanceLevel", "none", 0, activePowerUps, ent, pmPlayer)
  /\ UNCHANGED activePowerUps
  /\ UNCHANGED PUFrame

NextPU ==
  \/ PUAdd
  \/ PUTick
  \/ PUReset
  \/ PULevelUp

SpecPU == InitPU /\ [][NextPU]_vars

\* ------------------------------------------------- the player under attack
\* The same calls with, between them, the three ways the engine hurts the
\* player: an enemy runs into it, the boss runs into it, an enemy is found
\* below the bottom of the canvas.
\* checkCollisions on the player and an enemy e that overlaps it:
\* player.onCollision(e), then e.onCollision(player)
EnemyContact(h, p, e) ==
  LET h2 == Append(h, e)
      n == Len(h2)
  IN SubSeq(OnCollision(OnCollision(h2, p, n), n, p), 1, Len(h))

\* The same with the boss, whose onCollision damages the player and leaves
\* the boss as it is
BossContact(h, p) ==
  EnemyContact(h, p, [NewBoss(h[p].x, 1000) EXCEPT !.y = h[p].y])

\* handleEntityDestruction on an enemy with y > canvas.height + 50
BottomCrossing(h, p) == IF h[p].active THEN TakeDamage(h, p, 1) ELSE h

PlayerHit ==
  /\ pc = "api"
  /\ \E by \in {"basic", "heavy", "boss", "bottom"} :
       /\ by # "bottom" => ent[pmPlayer].active
       /\ ent' = CASE by = "boss" -> BossContact(ent, pmPlayer)
                   [] by = "bottom" -> BottomCrossing(ent, pmPlayer)
                   [] OTHER -> EnemyContact(ent, pmPlayer,
                                 [NewEnemy(by, ent[pmPlayer].x)
                                    EXCEPT !.y = ent[pmPlayer].y])
       /\ lastCall' = Call("hit", by, 0, activePowerUps, ent, pmPlayer)
  /\ UNCHANGED activePowerUps
  /\ UNCHANGED PUFrame

NextShield ==
  \/ PUAdd
  \/ PUTick
  \/ PUReset
  \/ PULevelUp
  \/ PlayerHit

SpecShield == InitPU /\ [][NextShield]_vars

\* ------------------------------------------------------------ the gun alone
\* handleAutoShooting called with the gun ready, between calls that add a
\* power-up, let time pass and empty the EntityManager.
ShotKinds == {"multi_shot", "damage_boost"}

ShotPowerUp ==
  /\ pc = "api"
  /\ \E type \in ShotKinds :
       LET s == AddPowerUp(PU(activePowerUps, ent), pmPlayer, Config(type)) IN
       /\ activePowerUps' = s.pu
       /\ ent' = s.h
       /\ lastCall' = Call("addPowerUp", type, 0, activePowerUps, ent, pmPlayer)
  /\ UNCHANGED PUFrame

ShotFired ==
  /\ pc = "api"
  /\ Len(entitiesToAdd) + GetMultiShotCount(activePowerUps) <= 1 + 3 * MaxShots
  /\ Assign(HandleAutoShooting(CurG, TRUE))
  /\ pc' = "api"

\* entityManager.clear()
ShotClear ==
  /\ pc = "api"
  /\ Assign([CurG EXCEPT !.m = EMClear])
  /\ pc' = "api"

NextShot ==
  \/ ShotPowerUp
  \/ PUTick
  \/ ShotFired
  \/ ShotClear

SpecShot == InitPU /\ [][NextShot]_vars

\* -------------------------------------------------------- the player alone
\* The shot timer of one player under update(deltaTime), setFireRate and the
\* shoot() of handleAutoShooting.  lastCall keeps what the calls add up to:
\* dt is the time the updates have accumulated since the shot before (or
\* since the player was made), type tells whether there was one, and rate
\* is the fire rate the call found.
GunSteps == {0, 16, MaxDeltaMs}
GunRates == {MinFireRate, BaseFireRate \div 2, BaseFireRate - 20, BaseFireRate}

GunCall(op, shot, since, rate) ==
  [op |-> op, type |-> IF shot THEN "shot" ELSE "none", dt |-> since,
   before |-> <<>>, rate |-> rate]

HasShot == lastCall.op = "shoot" \/ lastCall.type = "shot"
SinceShot == IF lastCall.op = "shoot" THEN 0 ELSE lastCall.dt

InitGun ==
  /\ pc = "gun"
  /\ gameState = FreshGameState("playing")
  /\ isRunning = TRUE
  /\ highScore = 0
  /\ levelProgressTimer = 0
  /\ enemiesKilledThisLevel = 0
  /\ lmLevel = 1
  /\ ent = <<NewPlayer>>
  /\ player = 1
  /\ entities = <<1>>
  /\ entitiesToAdd = <<>>
  /\ entitiesToRemove = <<>>
  /\ entitiesByType = [NoIndex EXCEPT !["player"] = {1}]
  /\ activePowerUps = <<>>
  /\ pmPlayer = 1
  /\ scheduled = 0
  /\ framePending = FALSE
  /\ elapsed = 0
  /\ updateArgs = <<>>
  /\ spawnTimers = NoTimers
  /\ lastCall = NoCall

GunFrame == <<pc, gameState, isRunning, highScore, levelProgressTimer,
              enemiesKilledThisLevel, lmLevel, player, entities, entitiesToAdd,
              entitiesToRemove, entitiesByType, activePowerUps, pmPlayer,
              scheduled, framePending, elapsed, updateArgs,
                 spawnTimers>>

\* player.update(deltaTime)
GunUpdate ==
  /\ pc = "gun"
  /\ ent[player].lastShotTime < MaxGunMs
  /\ \E dt \in GunSteps :
       /\ ent' = PlayerUpdate(ent, player, dt)
       /\ lastCall' = GunCall("update", HasShot, SinceShot + dt, ent[player].fireRate)
  /\ UNCHANGED GunFrame

\* player.setFireRate(rate)
GunSetFireRate ==
  /\ pc = "gun"
  /\ \E rate \in GunRates :
       /\ ent' = SetFireRate(ent, player, rate)
       /\ lastCall' = GunCall("setFireRate", HasShot, SinceShot, ent[player].fireRate)
  /\ UNCHANGED GunFrame

\* handleAutoShooting: shouldAutoShoot() and then shoot()
GunShoot ==
  /\ pc = "gun"
  /\ ent[player].active
  /\ CanShoot(ent[player])
  /\ ent' = PlayerShoot(ent, player)
  /\ lastCall' = GunCall("shoot", HasShot, SinceShot, ent[player].fireRate)
  /\ UNCHANGED GunFrame

NextGun ==
  \/ GunUpdate
  \/ GunSetFireRate
  \/ GunShoot

SpecGun == InitGun /\ [][NextGun]_vars

\* ------------------------------------------------------ LevelManager alone
\* The LevelManager driven call by call; lastCall holds the last
\* getLevelConfig call and what it returned.
InitLM ==
  /\ pc = "lm"
  /\ gameState = FreshGameState("menu")
  /\ isRunning = FALSE
  /\ highScore = 0
  /\ levelProgressTimer = 0
  /\ enemiesKilledThisLevel = 0
  /\ lmLevel = 1
  /\ ent = <<>>
  /\ player = 0
  /\ entities = <<>>
  /\ entitiesToAdd = <<>>
  /\ entitiesToRemove = <<>>
  /\ entitiesByType = NoIndex
  /\ activePowerUps = <<>>
  /\ pmPlayer = 0
  /\ scheduled = 0
  /\ framePending = FALSE
  /\ elapsed = 0
  /\ updateArgs = <<>>
  /\ spawnTimers = NoTimers
  /\ lastCall = NoCall

LMFrame == <<pc, gameState, isRunning, highScore, levelProgressTimer,
             enemiesKilledThisLevel, ent, player, entities, entitiesToAdd,
             entitiesToRemove, entitiesByType, activePowerUps, pmPlayer,
             scheduled, framePending, elapsed, updateArgs,
                 spawnTimers>>

\* levelManager.setCurrentLevel(level)
LMSetCurrentLevel ==
  /\ pc = "lm"
  /\ \E level \in 1..MaxQueryLevel : lmLevel' = level
  /\ UNCHANGED lastCall
  /\ UNCHANGED LMFrame

\* levelManager.getLevelConfig(level), or getLevelConfig() for level = 0
LMGetLevelConfig ==
  /\ pc = "lm"
  /\ \E level \in 0..MaxQueryLevel :
       lastCall' = [op |-> "getLevelConfig", level |-> level,
                    target |-> TargetLevel(lmLevel, level),
                    result |-> GetLevelConfig(lmLevel, level)]
  /\ UNCHANGED lmLevel
  /\ UNCHANGED LMFrame

NextLM ==
  \/ LMSetCurrentLevel
  \/ LMGetLevelConfig

SpecLM == InitLM /\ [][NextLM]_vars

\* ------------------------------------------------------ the kind of an enemy
\* EnemySpawner.chooseEnemyType asked at any level with any random draw
EnemyKindDraw ==
  /\ pc = "lm"
  /\ \E level \in 1..MaxKindLevel, random \in Randoms :
       lastCall' = [op |-> "chooseEnemyType", level |-> level, random |-> random,
                    result |-> ChooseEnemyType(lmLevel, level, random)]
  /\ UNCHANGED lmLevel
  /\ UNCHANGED LMFrame

NextKind == EnemyKindDraw

SpecKind == InitLM /\ [][NextKind]_vars

\* ------------------------------------------------------ a pair of entities
\* PhysicsSystem.checkCollisions on two entities of any kinds, side by side,
\* touching or overlapping, taken in either order.
PairShapes ==
  {NewPlayer, NewEnemy("basic", 0), NewEnemy("fast", 0), NewEnemy("heavy", 0),
   NewProjectile(0, 0, 1), NewBarrel("health", 0),
   NewPowerUp("shield", 0, 0, 0), NewEntity("particle", "particle", 0, 0, 1)}

PairXs == {380, 400, 420, 445}
PairYs == {300, 320, 345}

PairEntities ==
  {[e EXCEPT !.x = x, !.y = y] : e \in PairShapes, x \in PairXs, y \in PairYs}

InitPair ==
  /\ pc = "pair"
  /\ gameState = FreshGameState("playing")
  /\ isRunning = FALSE
  /\ highScore = 0
  /\ levelProgressTimer = 0
  /\ enemiesKilledThisLevel = 0
  /\ lmLevel = 1
  /\ \E a \in PairEntities, b \in PairEntities : ent = <<a, b>>
  /\ player = 0
  /\ entities = <<1, 2>>
  /\ entitiesToAdd = <<>>
  /\ entitiesToRemove = <<>>
  /\ entitiesByType = NoIndex
  /\ activePowerUps = <<>>
  /\ pmPlayer = 0
  /\ scheduled = 0
  /\ framePending = FALSE
  /\ elapsed = 0
  /\ updateArgs = <<>>
  /\ spawnTimers = NoTimers
  /\ lastCall = NoCall

\* The two tests of the inner loop of checkCollisions on entityA = ent[i],
\* entityB = ent[j]
PairTest ==
  /\ pc = "pair"
  /\ \E i \in {1, 2} :
       LET j == 3 - i IN
       lastCall' = [op |-> "checkCollisions", a |-> i, b |-> j,
                    should |-> ShouldCheckCollision(ent[i], ent[j]),
                    hit |-> Intersects(ent[i], ent[j])]
  /\ UNCHANGED <<pc, gameState, isRunning, highScore, levelProgressTimer,
                 enemiesKilledThisLevel, lmLevel, ent, player, entities,
                 entitiesToAdd, entitiesToRemove, entitiesByType,
                 activePowerUps, pmPlayer, scheduled, framePending, elapsed,
                 updateArgs,
                 spawnTimers>>

NextPair == PairTest

SpecPair == InitPair /\ [][NextPair]_vars

\* ------------------------------------------------------- a pair that meets
\* The body of the inner loop of checkCollisions on two entities in one
\* place, of any kinds, healths and damages, taken in either order.
HitShapes ==
  {[NewPlayer EXCEPT !.health = hp, !.shieldActive = sh] :
     hp \in 1..PlayerHealth, sh \in BOOLEAN}
  \cup {[NewEnemy(t, 0) EXCEPT !.health = hp] :
          t \in {"basic", "fast", "heavy"}, hp \in 1..2}
  \cup {NewBoss(0, 1000), [NewBoss(0, 1000) EXCEPT !.health = 1]}
  \cup {[NewProjectile(0, 0, d) EXCEPT !.sub = o] :
          d \in 1..2, o \in {"player", "enemy"}}
  \cup {NewBarrel("health", 0), NewPowerUp("shield", 0, 0, 0)}

HitEntities == {[e EXCEPT !.x = 400, !.y = 300] : e \in HitShapes}

InitHit ==
  /\ pc = "hit"
  /\ gameState = FreshGameState("playing")
  /\ isRunning = FALSE
  /\ highScore = 0
  /\ levelProgressTimer = 0
  /\ enemiesKilledThisLevel = 0
  /\ lmLevel = 1
  /\ \E a \in HitEntities, b \in HitEntities : ent = <<a, b>>
  /\ player = 0
  /\ entities = <<1, 2>>
  /\ entitiesToAdd = <<>>
  /\ entitiesToRemove = <<>>
  /\ entitiesByType = NoIndex
  /\ activePowerUps = <<>>
  /\ pmPlayer = 0
  /\ scheduled = 0
  /\ framePending = FALSE
  /\ elapsed = 0
  /\ updateArgs = <<>>
  /\ spawnTimers = NoTimers
  /\ lastCall = NoCall

\* entityA.onCollision(entityB); entityB.onCollision(entityA), behind the
\* three tests of the loop, on entityA = ent[a], entityB = ent[b]
PairHit ==
  /\ pc = "hit"
  /\ \E a \in {1, 2} :
       LET b == 3 - a IN
       /\ ent[a].active /\ ent[b].active
       /\ ShouldCheckCollision(ent[a], ent[b])
       /\ Intersects(ent[a], ent[b])
       /\ ent' = OnCollision(OnCollision(ent, a, b), b, a)
       /\ lastCall' = [op |-> "collide", a |-> a, b |-> b, before |-> ent]
  /\ UNCHANGED <<pc, gameState, isRunning, highScore, levelProgressTimer,
                 enemiesKilledThisLevel, lmLevel, player, entities,
                 entitiesToAdd, entitiesToRemove, entitiesByType,
                 activePowerUps, pmPlayer, scheduled, framePending, elapsed,
                 updateArgs,
                 spawnTimers>>

NextHit == PairHit

SpecHit == InitHit /\ [][NextHit]_vars

\* --------------------------------------------------- a projectile in a crowd
\* checkCollisions, frame after frame, on one projectile of the player and
\* two targets, in any order of the list; a target stands where the
\* projectile is or away from it.  lastCall.hurt keeps the entities whose
\* health has gone down so far.
CrowdTargets ==
  {[t EXCEPT !.x = x, !.y = 300] :
     t \in {NewEnemy("basic", 0), NewEnemy("heavy", 0), NewBoss(0, 1000),
            NewBarrel("health", 0)},
     x \in {400, 600}}

CrowdShots == {NewProjectile(400, 300, d) : d \in 1..2}

InitCrowd ==
  /\ pc = "crowd"
  /\ gameState = FreshGameState("playing")
  /\ isRunning = FALSE
  /\ highScore = 0
  /\ levelProgressTimer = 0
  /\ enemiesKilledThisLevel = 0
  /\ lmLevel = 1
  /\ \E p \in CrowdShots, a \in CrowdTargets, b \in CrowdTargets :
       ent \in {<<p, a, b>>, <<a, p, b>>, <<a, b, p>>}
  /\ player = 0
  /\ entities = <<1, 2, 3>>
  /\ entitiesToAdd = <<>>
  /\ entitiesToRemove = <<>>
  /\ entitiesByType = NoIndex
  /\ activePowerUps = <<>>
  /\ pmPlayer = 0
  /\ scheduled = 0
  /\ framePending = FALSE
  /\ elapsed = 0
  /\ updateArgs = <<>>
  /\ spawnTimers = NoTimers
  /\ lastCall = [op |-> "none", hurt |-> {}]

CrowdCollide ==
  /\ pc = "crowd"
  /\ ent' = CheckCollisions(ent, entities, 1, 2)
  /\ lastCall' = [op |-> "checkCollisions",
                  hurt |-> lastCall.hurt \cup
                             {id \in DOMAIN ent : ent'[id].health < ent[id].health}]
  /\ UNCHANGED <<pc, gameState, isRunning, highScore, levelProgressTimer,
                 enemiesKilledThisLevel, lmLevel, player, entities,
                 entitiesToAdd, entitiesToRemove, entitiesByType,
                 activePowerUps, pmPlayer, scheduled, framePending, elapsed,
                 updateArgs,
                 spawnTimers>>

NextCrowd == CrowdCollide

SpecCrowd == InitCrowd /\ [][NextCrowd]_vars

\* ------------------------------------------------------- the spawners alone
\* EnemySpawner.update and BarrelSpawner.update called with deltaTimes of
\* any size at a level that stays, on a manager that is updated or cleared
\* in between.  lastCall keeps the call made last and its deltaTime.
SpawnLevels == {1, 3}
SpawnSteps == {1000, BossSpawnInterval}
SpawnColXs == {400}

InitSpawn ==
  /\ pc = "spawners"
  /\ \E level \in SpawnLevels :
       /\ gameState = [FreshGameState("playing") EXCEPT !.currentLevel = level]
       /\ lmLevel = level
  /\ isRunning = TRUE
  /\ highScore = 0
  /\ levelProgressTimer = 0
  /\ enemiesKilledThisLevel = 0
  /\ ent = <<>>
  /\ player = 0
  /\ entities = <<>>
  /\ entitiesToAdd = <<>>
  /\ entitiesToRemove = <<>>
  /\ entitiesByType = NoIndex
  /\ activePowerUps = <<>>
  /\ pmPlayer = 0
  /\ scheduled = 0
  /\ framePending = FALSE
  /\ elapsed = 0
  /\ updateArgs = <<>>
  /\ spawnTimers = NoTimers
  /\ lastCall = NoCall

SpawnFrame == <<pc, gameState, isRunning, highScore, levelProgressTimer,
                enemiesKilledThisLevel, lmLevel, player, activePowerUps,
                pmPlayer, scheduled, framePending, elapsed, updateArgs>>

SpawnRoom ==
  /\ Len(entities) + Len(entitiesToAdd) < MaxSpawned
  /\ spawnTimers.boss < MaxTimerMs
  /\ spawnTimers.barrel < MaxTimerMs

\* What a call of a spawner leaves, written back
SpawnersAssign(s, op, dt) ==
  /\ ent' = Collect(s.g.h, Reachable(s.g))
  /\ entities' = s.g.m.e
  /\ entitiesToAdd' = s.g.m.a
  /\ entitiesToRemove' = s.g.m.r
  /\ entitiesByType' = s.g.m.t
  /\ spawnTimers' = s.t
  /\ lastCall' = [NoCall EXCEPT !.op = op, !.dt = dt]
  /\ UNCHANGED SpawnFrame

EnemySpawnerCall ==
  /\ pc = "spawners"
  /\ SpawnRoom
  /\ \E dt \in SpawnSteps, kind \in EnemyChoices(gameState.currentLevel),
        x \in SpawnColXs, bossX \in BossXs :
       SpawnersAssign(EnemySpawnerUpdate(CurG, spawnTimers, dt, kind, x, bossX),
                      "enemySpawner.update", dt)

BarrelSpawnerCall ==
  /\ pc = "spawners"
  /\ SpawnRoom
  /\ \E dt \in SpawnSteps, k \in {"shield"}, x \in SpawnColXs :
       SpawnersAssign(BarrelSpawnerUpdate(CurG, spawnTimers, dt, k, x),
                      "barrelSpawner.update", dt)

\* The promotion of the staged entities by entityManager.update()
SpawnPromote ==
  /\ pc = "spawners"
  /\ entitiesToAdd # <<>>
  /\ SpawnersAssign(Spawners([CurG EXCEPT !.m = EMPromote(CurEM, ent)], spawnTimers),
                    "entityManager.update", 0)

\* entityManager.clear()
SpawnClear ==
  /\ pc = "spawners"
  /\ Len(entities) + Len(entitiesToAdd) > 0
  /\ SpawnersAssign(Spawners([CurG EXCEPT !.h = <<>>, !.m = EMClear], spawnTimers),
                    "entityManager.clear", 0)

NextSpawn ==
  \/ EnemySpawnerCall
  \/ BarrelSpawnerCall
  \/ SpawnPromote
  \/ SpawnClear

SpecSpawn == InitSpawn /\ [][NextSpawn]_vars

\* ------------------------------------------------------- frames that go on
\* The engine right after start(), and frame callbacks that keep firing in
\* the playing state with no key pressed, each a full step of time after
\* the one before.  The gun and the spawners may be due in the first
\* MaxArrivalFrames frames only; of the particles of an explosion one is
\* followed.  The frames are followed for as long as the level is the first
\* and something other than the player is in the manager.
DrainColXs == {400}
Sparks == {"none", "spark", "explosion"}

InitDrain ==
  /\ pc = "idle"
  /\ gameState = FreshGameState("playing")
  /\ isRunning = TRUE
  /\ highScore = 0
  /\ levelProgressTimer = 0
  /\ enemiesKilledThisLevel = 0
  /\ lmLevel = 1
  /\ ent = <<NewPlayer>>
  /\ player = 1
  /\ entities = <<1>>
  /\ entitiesToAdd = <<>>
  /\ entitiesToRemove = <<>>
  /\ entitiesByType = [NoIndex EXCEPT !["player"] = {1}]
  /\ activePowerUps = <<>>
  /\ pmPlayer = 1
  /\ scheduled = 1
  /\ framePending = TRUE
  /\ elapsed = 0
  /\ updateArgs = <<0>>
  /\ spawnTimers = NoTimers
  /\ lastCall = NoCall

\* The entities the manager holds or indexes, the player and the boss aside
Lingers(id) ==
  /\ id \in DOMAIN ent
  /\ ent[id].kind \in {"enemy", "projectile", "barrel", "powerup", "particle"}
  /\ ent[id].sub # "boss"
  /\ \/ id \in SeqToSet(entities) \cup SeqToSet(entitiesToAdd)
     \/ id \in entitiesByType[ent[id].kind]

Lingering == {id \in DOMAIN ent : Lingers(id)}

\* particleSystem.createExplosion at the first destroyed enemy or barrel the
\* destruction scan meets
Explosion(g, spark) ==
  LET wrecks == SelectSeq(g.m.e, LAMBDA id :
                   ~g.h[id].active /\ g.h[id].kind \in {"enemy", "barrel"}) IN
  IF wrecks # <<>> /\ spark # "none" /\ Population(g.h) < MaxIds
  THEN SpawnEntity(g, NewParticle(spark, g.h[wrecks[1]].x, g.h[wrecks[1]].y))
  ELSE g

\* The frames in which the gun and the spawners may be due
Arriving == levelProgressTimer < MaxArrivalFrames * MaxDeltaMs

DrainOpen ==
  /\ gameState.currentLevel = 1
  /\ gameState.gameStatus = "playing"
  /\ Arriving \/ Lingering # {}

\* A frame callback fires and gameLoop calls update
DrainLoop ==
  /\ pc = "idle"
  /\ DrainOpen
  /\ Assign(GameLoopCall([FireFrame(CurG, TRUE) EXCEPT !.el = MaxDeltaMs], {}))
  /\ pc' = "shoot"

DrainShoot ==
  /\ pc = "shoot"
  /\ \E ready \in IF Arriving THEN BOOLEAN ELSE {FALSE} : Shoot(ready)
  /\ pc' = "spawn"

DrainSpawn ==
  /\ pc = "spawn"
  /\ \E enemy, barrel \in IF Arriving THEN BOOLEAN ELSE {FALSE} :
     \E x \in DrainColXs :
       LET g1 == IF enemy /\ Population(ent) < MaxIds
                 THEN SpawnEntity(CurG, NewEnemy("basic", x)) ELSE CurG
           g2 == IF barrel /\ Population(g1.h) < MaxIds
                 THEN BarrelSpawnerFire(g1, "shield", x) ELSE g1
       IN Assign(g2)
  /\ pc' = "entities"

\* handleEntityDestruction with the explosion it makes
DrainDestruction ==
  /\ pc = "destruction"
  /\ \E spark \in Sparks :
       Assign(Explosion(HandleEntityDestruction(CurG), spark))
  /\ pc' = "level"

NextDrain ==
  \/ DrainLoop
  \/ DrainShoot
  \/ DrainSpawn
  \/ EntityManagerUpdate
  \/ PowerUpManagerUpdate
  \/ Cull
  \/ PhysicsUpdate
  \/ DrainDestruction
  \/ LevelProgression
  \/ GameOverCheck

\* The time of one more frame on the level timer
FrameTime ==
  /\ DrainOpen
  /\ levelProgressTimer' = levelProgressTimer + MaxDeltaMs

\* requestAnimationFrame at the end of every gameLoop call: the display
\* calls back, and update runs through its steps to the one that adds the
\* frame's deltaTime to the level timer
SpecDrain ==
  InitDrain /\ [][NextDrain]_vars /\ WF_levelProgressTimer(FrameTime)

\* ------------------------------------------------------------ properties
Barrels == {b \in DOMAIN ent : ent[b].kind = "barrel"}
DropsOf(b) == {p \in DOMAIN ent : ent[p].kind = "powerup" /\ ent[p].from = b}
Enemies == {e \in DOMAIN ent : ent[e].kind = "enemy"}
AfterDestruction == pc \in {"level", "gameover", "idle"}

\* C1: a barrel that was hit by a projectile or touched by the player (it is
\* inactive above the bottom line) has caused exactly one PowerUp to be
\* constructed once handleEntityDestruction has seen it, never two, and that
\* PowerUp carries the kind the barrel was constructed with.
C1_OnePowerUpPerBarrel ==
  \A b \in Barrels :
    (~ent[b].active /\ ~DropReachedBottom(ent[b])) =>
      /\ Cardinality(DropsOf(b)) <= 1
      /\ AfterDestruction => Cardinality(DropsOf(b)) = 1
      /\ \A p \in DropsOf(b) : ent[p].sub = ent[b].sub

\* C2: an enemy destroyed by projectile damage (inactive with health 0) is
\* counted by the scoring step once, for its point value, while it is in the
\* manager: never a second time.
C2_ScoredOnce ==
  \A e \in Enemies :
    (~ent[e].active /\ ent[e].health = 0) =>
      /\ ent[e].scored <= 1
      /\ AfterDestruction => ent[e].scored = 1

\* C3: an entity that is inactive when a frame's EntityManager.update starts
\* (it became inactive during an earlier frame, where the queries still
\* returned it) is returned by no query once that update has run.
C3_GoneAfterNextUpdate ==
  [][pc = "entities" =>
       \A id \in SeqToSet(entities) :
         ~ent[id].active =>
           /\ GetEntity(EM(entities', entitiesToAdd', entitiesToRemove',
                           entitiesByType'), id) = {}
           /\ \A t \in EntityType : id \notin entitiesByType'[t]]_vars

\* What the five queries say about id in a manager state
Returned(m, h, id) ==
  /\ GetEntity(m, id) = {id}
  /\ id \in SeqToSet(GetAllEntities(m))
  /\ id \in SeqToSet(GetEntitiesByEntityType(m, h[id].kind))
  /\ GetEntityCountByType(m, h[id].kind) >= 1
  /\ HasEntitiesOfType(m, h[id].kind)

NotReturned(m, id) ==
  /\ GetEntity(m, id) = {}
  /\ id \notin SeqToSet(GetAllEntities(m))
  /\ \A t \in EntityType : id \notin SeqToSet(GetEntitiesByEntityType(m, t))
  /\ \A t \in EntityType : id \notin m.t[t]

NextEM == EM(entities', entitiesToAdd', entitiesToRemove', entitiesByType')

StagedUntilUpdate ==
  \A id \in SeqToSet(entitiesToAdd) :
    /\ NotReturned(CurEM, id)
    /\ IF pc = "entities"
       THEN Returned(NextEM, ent', id)
       ELSE id \in SeqToSet(entitiesToAdd') /\ NotReturned(NextEM, id)

\* The step called EntityManager.clear (start, restart or returnToMenu)
ClearStep ==
  /\ pc \in {"idle", "loop"}
  /\ entities' = <<>>
  /\ entitiesToRemove' = <<>>
  /\ entitiesByType' = NoIndex

\* C4 as stated: an entity passed to addEntity is returned by no query until
\* the next EntityManager.update, and by all of them right after it.
C4_StagedThenReturned == [][StagedUntilUpdate]_vars

\* C4: an entity passed to addEntity is returned by no query until the next
\* EntityManager.update and by all of them, under its own kind, right after
\* it, unless clear() is called before that update and discards it.
C4_StagedThenReturnedUnlessCleared == [][ClearStep \/ StagedUntilUpdate]_vars

\* A power-up dropped by a barrel, in the live set right after the update
\* that promoted it
C4_Promoted ==
  /\ pc = "powerups"
  /\ \E id \in SeqToSet(entities) :
       /\ ent[id].kind = "powerup"
       /\ Returned(CurEM, ent, id)
       /\ ent[id].from # 0
       /\ ent[id].y = ent[ent[id].from].y

EffectsOf(pu, type) == {i \in DOMAIN pu : pu[i].type = type}

\* C5: the map never holds two effects of one kind, and right after
\* addPowerUp(config) it holds exactly one effect of config's kind, whose
\* remaining time is config's full duration whatever was left of an earlier
\* effect of that kind.
C5_OneEffectPerKind ==
  /\ \A type \in PowerUpType : Cardinality(EffectsOf(activePowerUps, type)) <= 1
  /\ lastCall.op = "addPowerUp" =>
       /\ Cardinality(EffectsOf(activePowerUps, lastCall.type)) = 1
       /\ \A i \in EffectsOf(activePowerUps, lastCall.type) :
            activePowerUps[i].timeRemaining = Config(lastCall.type).duration

\* addPowerUp has just replaced an effect of the same kind that had run down
\* part of its time
C5_Readded ==
  /\ lastCall.op = "addPowerUp"
  /\ \E i \in EffectsOf(lastCall.before, lastCall.type) :
       /\ lastCall.before[i].timeRemaining < lastCall.before[i].duration
       /\ lastCall.before[i].timeRemaining > 0
  /\ Cardinality(EffectsOf(activePowerUps, lastCall.type)) = 1

\* C6: a health-restore effect (duration 0) is never tracked: hasPowerUp
\* (HEALTH_RESTORE) is false and getActivePowerUps does not contain it.
C6_HealthRestoreNotTracked ==
  /\ ~HasPowerUp(activePowerUps, "health_restore")
  /\ \A i \in DOMAIN GetActivePowerUps(activePowerUps) :
       GetActivePowerUps(activePowerUps)[i].duration # 0

\* The rapid-fire effect runs out in this update call
RapidFireExpires ==
  /\ lastCall'.op = "update"
  /\ \E i \in EffectsOf(activePowerUps, "rapid_fire") :
       activePowerUps[i].timeRemaining - lastCall'.dt <= 0

\* C7: an update in which the rapid-fire effect runs out removes the effect
\* and leaves the player's fire rate at the default 0.3 s (300 ms), whatever
\* the rate was before the effect was applied.
C7_RapidFireReverts ==
  [][RapidFireExpires =>
       /\ ~HasPowerUp(activePowerUps', "rapid_fire")
       /\ ent'[pmPlayer'].fireRate = 300]_vars

\* update has just ended a rapid-fire effect that had been applied to a rate
\* other than the default
C7_Reverted ==
  /\ lastCall.op = "update"
  /\ HasPowerUp(lastCall.before, "rapid_fire")
  /\ ~HasPowerUp(activePowerUps, "rapid_fire")
  /\ lastCall.rate \notin {BaseFireRate, BaseFireRate \div 2}
  /\ ent[pmPlayer].fireRate = BaseFireRate

StatusEdges ==
  {<<"menu", "playing">>, <<"playing", "paused">>, <<"paused", "playing">>,
   <<"playing", "game_over">>, <<"game_over", "playing">>,
   <<"game_over", "menu">>}

\* C8: every step that changes gameStatus takes one of the six edges
\* menu->playing, playing->paused, paused->playing, playing->game_over,
\* game_over->playing, game_over->menu.
C8_StatusEdges ==
  [][gameState'.gameStatus # gameState.gameStatus =>
       <<gameState.gameStatus, gameState'.gameStatus>> \in StatusEdges]_vars

\* The menu of a running engine: reached through menu->playing,
\* playing->game_over and game_over->menu, with the lost game's score kept
C8_BackInMenu ==
  /\ gameState.gameStatus = "menu"
  /\ isRunning
  /\ highScore > 0

\* C9: in a menu state of the running loop, the frame in which start is
\* pressed ends in status playing with a fresh player staged.
C9_MenuStarts ==
  (gameState.gameStatus = "menu" /\ isRunning /\ pc \in {"idle", "loop"}) =>
    LET g == HandleGameStateInput(CurG, {"start"}) IN
    /\ g.gs.gameStatus = "playing"
    /\ g.pl \in SeqToSet(g.m.a)
    /\ g.h[g.pl] = NewPlayer

PlayerDied == pc = "gameover" /\ player # 0 /\ ~ent[player].active

\* C10: the checkGameOver step that finds the player inactive with more than
\* one life left takes exactly one life, constructs a new player and stages
\* it in the EntityManager, and deactivates every enemy closer than the clear
\* radius (100) to the spawn point; lives go down in no other step, and the
\* step leaves an active player, so one death costs one life.
C10_Respawn ==
  [][/\ (PlayerDied /\ gameState.lives > 1) =>
          /\ gameState'.lives = gameState.lives - 1
          /\ player' # player
          /\ ent'[player'] = NewPlayer
          /\ player' \in SeqToSet(entitiesToAdd') \ SeqToSet(entitiesToAdd)
          /\ \A e \in Enemies :
               DistanceBelow(NewPlayer, ent[e], 100) => ~ent'[e].active
     /\ gameState'.lives < gameState.lives =>
          PlayerDied /\ gameState'.lives = gameState.lives - 1]_vars

\* After a respawn: a life gone, the new player staged, and an enemy that was
\* near the spawn point without touching the player deactivated
C10_Respawned ==
  /\ pc = "idle"
  /\ gameState.lives = InitialLives - 1
  /\ player \in SeqToSet(entitiesToAdd)
  /\ \E e \in Enemies :
       /\ ~ent[e].active
       /\ ent[e].y = 480
       /\ DistanceBelow(NewPlayer, ent[e], ClearRadius)


\* C11: the checkGameOver step that finds the player inactive with exactly
\* one life left sets gameStatus to game_over and highScore to the larger of
\* the previous highScore and the score; that step belongs to the frame in
\* which the player became inactive, so no frame of a playing game starts
\* with an inactive player.
C11_GameOverOnLastLife ==
  [][/\ (PlayerDied /\ gameState.lives = 1) =>
          /\ gameState'.gameStatus = "game_over"
          /\ gameState'.lives = 0
          /\ highScore' = Max(highScore, gameState.score)
     /\ (pc \in {"idle", "loop"} /\ gameState.gameStatus = "playing" /\ player # 0) =>
          ent[player].active]_vars

\* A second game lost with a score below the high score of the first
C11_HighScoreKept ==
  /\ pc = "idle"
  /\ gameState.gameStatus = "game_over"
  /\ gameState.lives = 0
  /\ ~ent[player].active
  /\ gameState.score > 0
  /\ highScore > gameState.score


\* C12: in a playing frame the level advances in updateLevelProgression
\* exactly when the level timer, with this frame's delta added, is at least
\* 30 s or the kills counted for the level are at least 10 + 5 L, L being
\* gameState.currentLevel.
C12_AdvanceWhenDue ==
  [][(pc = "level" /\ gameState.gameStatus = "playing") =>
       ((gameState'.currentLevel # gameState.currentLevel) <=>
          \/ levelProgressTimer + MaxDeltaMs >= LevelDurationMs
          \/ enemiesKilledThisLevel >= 10 + 5 * gameState.currentLevel)]_vars


\* C13: the level only rises in updateLevelProgression, once per frame and by
\* exactly 1; that step adds 100 times the new level number to the score
\* and leaves the level timer and the per-level kill counter at 0.
C13_OneAdvancePerFrame ==
  [][gameState'.currentLevel > gameState.currentLevel =>
       /\ pc = "level" /\ pc' = "gameover"
       /\ gameState'.currentLevel = gameState.currentLevel + 1
       /\ gameState'.score = gameState.score + 100 * gameState'.currentLevel
       /\ levelProgressTimer' = 0
       /\ enemiesKilledThisLevel' = 0]_vars

\* Right after the second advance of a game, both of them by the timer
C13_AdvancedTwice ==
  /\ pc = "gameover"
  /\ gameState.currentLevel = 3
  /\ gameState.score = 200 + 300
  /\ levelProgressTimer = 0
  /\ enemiesKilledThisLevel = 0


\* C14: getLevelConfig returns, for a level from 1 to 10, the entry of the
\* fixed table for that level whatever the current level is (for level 1:
\* spawn rate 0.8, speed 1.0, health 1.0, special chance 0.0), and for a
\* level above 10 a configuration with spawn rate at most 8, speed
\* multiplier at most 4, health multiplier at most 10 and special chance 1.0.
C14_LevelConfig ==
  lastCall.op = "getLevelConfig" =>
    LET t == lastCall.target
        c == lastCall.result
    IN /\ c.levelNumber = t
       /\ t \in 1..10 =>
            /\ \E i \in DOMAIN LevelConfigs : c = LevelConfigs[i]
            /\ c.enemySpawnRate >= 800 /\ c.enemySpawnRate <= 3000
       /\ t = 1 =>
            /\ c.enemySpawnRate = 800
            /\ c.enemySpeedMultiplier = 1000
            /\ c.enemyHealthMultiplier = 1000
            /\ c.specialEnemyChance = 0
       /\ t > 10 =>
            /\ c.enemySpawnRate <= 8000
            /\ c.enemySpeedMultiplier <= 4000
            /\ c.enemyHealthMultiplier <= 10000
            /\ c.specialEnemyChance = 1000

\* getLevelConfig(25): speed and health sit on their caps, the spawn rate
\* (6.0) is still below its cap
C14_Level25 ==
  /\ lastCall.op = "getLevelConfig"
  /\ lastCall.level = 25
  /\ lastCall.result.enemySpawnRate = 6000
  /\ lastCall.result.enemySpeedMultiplier = 4000
  /\ lastCall.result.enemyHealthMultiplier = 10000
  /\ lastCall.result.specialEnemyChance = 1000


\* C15: every entity object with health above 0 is active.
C15_HealthyIsActive ==
  \A id \in DOMAIN ent : ent[id].health > 0 => ent[id].active


\* C16: an entity object whose active flag is false never gets it back.  A
\* heap slot that turns from inactive to active therefore holds another
\* object, constructed in that step: the one just passed to addEntity.
C16_InactiveForGood ==
  [][\A id \in DOMAIN ent \cap DOMAIN ent' :
       (~ent[id].active /\ ent'[id].active) =>
         /\ id \in SeqToSet(entitiesToAdd')
         /\ id \notin SeqToSet(entitiesToAdd)
         /\ id \notin SeqToSet(entities')]_vars

\* After a respawn: the player object that died is still in the manager,
\* inactive, beside the new one
C16_DeadPlayerKept ==
  /\ pc = "idle"
  /\ gameState.gameStatus = "playing"
  /\ ent[player].active
  /\ \E id \in SeqToSet(entities) :
       /\ id # player
       /\ ent[id].kind = "player"
       /\ ~ent[id].active
       /\ ent[id].health = 0

\* C17: every call of GameEngine.update gets a deltaTime of at least 0 and at
\* most 1/30 s, however long ago the frame before was: across a pause, a
\* stop and start, and the return to the menu.
C17_DeltaTimeCapped ==
  \A i \in DOMAIN updateArgs : updateArgs[i] >= 0 /\ updateArgs[i] * 30 <= 1000

\* The game is over, the tab is left for five seconds, and the frame that
\* follows returns to the menu: its update gets the cap, the update of the
\* gameLoop() call inside returnToMenu gets 0.
C17_LongGapCapped ==
  /\ pc = "idle"
  /\ gameState.gameStatus = "menu"
  /\ isRunning
  /\ updateArgs = <<MaxDeltaMs, 0>>

\* C18: from stop() until start() is called again no update runs and no
\* frame is requested; a frame callback that fires while the running flag is
\* false changes nothing of the game and does not reschedule itself.
C18_StoppedStaysStill ==
  [][~isRunning =>
       \/ pc' = "loop"
       \/ /\ UNCHANGED <<pc, gameState, isRunning, highScore,
                          levelProgressTimer, enemiesKilledThisLevel, lmLevel,
                          ent, player, entities, entitiesToAdd,
                          entitiesToRemove, entitiesByType, activePowerUps,
                          pmPlayer>>
          /\ scheduled' <= scheduled
          /\ updateArgs' \in {updateArgs, <<>>}]_vars

\* After a return to the menu two callbacks are pending; stop() cancels the
\* one it knows, the other has fired since and has made no update call.
C18_StaleCallbackFired ==
  /\ ~isRunning
  /\ gameState.gameStatus = "menu"
  /\ highScore > 0
  /\ scheduled = 0
  /\ updateArgs = <<>>

\* C19: collision detection is symmetric: for two entities a and b,
\* shouldCheckCollision and the bounding-box overlap test give for (a, b)
\* what they give for (b, a).
C19_CollisionSymmetric ==
  lastCall.op = "checkCollisions" =>
    /\ lastCall.should = ShouldCheckCollision(ent[lastCall.b], ent[lastCall.a])
    /\ lastCall.hit = Intersects(ent[lastCall.b], ent[lastCall.a])

\* A heavy enemy found to overlap a player it was tested against as entityA,
\* their boxes of different sizes off centre in both directions
C19_EnemyHitsPlayer ==
  /\ lastCall.op = "checkCollisions"
  /\ ent[lastCall.a].kind = "enemy"
  /\ ent[lastCall.a].sub = "heavy"
  /\ ent[lastCall.b].kind = "player"
  /\ ent[lastCall.a].x > ent[lastCall.b].x
  /\ ent[lastCall.a].y < ent[lastCall.b].y
  /\ lastCall.should
  /\ lastCall.hit

\* C20: while the shield of the player is up, no step lowers the health of
\* the player or deactivates it, whatever touches it.
C20_ShieldBlocksDamage ==
  [][(/\ player # 0
      /\ player' = player
      /\ ent[player].shieldActive
      /\ ent'[player].kind = "player")
       => /\ ent'[player].health >= ent[player].health
          /\ ent[player].active => ent'[player].active]_vars

\* The boss has run into the player whose shield was up: the player has the
\* health it started with and is active.
C20_BossMetShield ==
  /\ lastCall.op = "hit"
  /\ lastCall.type = "boss"
  /\ ent[player].shieldActive
  /\ ent[player].active
  /\ ent[player].health = PlayerHealth

\* The enemies of the live list that their own update has deactivated at
\* the bottom of the canvas, unhurt
Crossers ==
  {id \in SeqToSet(entities) :
     /\ ent[id].kind = "enemy"
     /\ ~ent[id].active
     /\ ent[id].health = ent[id].maxHealth
     /\ EnemyReachedBottom(ent[id])}

\* C21: in the frame in which an enemy has crossed the bottom of the
\* playfield the active, unshielded player loses one point of health for it.
C21_CrossingCostsHealth ==
  [][(/\ pc = "destruction"
      /\ Crossers # {}
      /\ ent[player].active
      /\ ~ent[player].shieldActive)
       => ent'[player].health = ent[player].health - Cardinality(Crossers)]_vars

\* C22: an enemy deactivated at the bottom of the playfield adds nothing to
\* the score and nothing to the kill counter of the level.
C22_CrossingAwardsNothing ==
  [][(/\ pc = "destruction"
      /\ Crossers # {}
      /\ \A id \in SeqToSet(entities) : ent[id].active \/ id \in Crossers)
       => /\ gameState'.score = gameState.score
          /\ enemiesKilledThisLevel' = enemiesKilledThisLevel]_vars

\* The active bosses the EntityManager holds, live or staged
Bosses(list, staged, h) ==
  {id \in SeqToSet(list) \cup SeqToSet(staged) :
     h[id].kind = "enemy" /\ h[id].sub = "boss" /\ h[id].active}

\* C23: the EntityManager never holds more than one active boss, and a boss
\* only arrives in a frame whose level is 3 or more.
C23_OneBossFromLevel3 ==
  [][/\ Cardinality(Bosses(entities', entitiesToAdd', ent')) <= 1
     /\ (Bosses(entities', entitiesToAdd', ent') # {}
           /\ Bosses(entities, entitiesToAdd, ent) = {})
          => gameState.currentLevel >= 3]_vars

\* At level 3 the boss hovers over the field and the spawner has run once
\* more: no second boss is staged.
C23_BossHovers ==
  /\ pc = "entities"
  /\ gameState.currentLevel = 3
  /\ entitiesToAdd = <<>>
  /\ \E id \in Bosses(entities, <<>>, ent) : Hovers(ent[id])

\* The power-ups of the live list within the pickup radius of the player
InReach ==
  {id \in SeqToSet(entities) :
     /\ ent[id].kind = "powerup"
     /\ DistanceBelow(ent[player], ent[id], PickupRadius)}

\* C24: a power-up is applied once, for 50 points: in a frame that scores no
\* enemy, the score grows by 50 for each power-up in reach of the active
\* player that was not already found inactive by the update of this frame,
\* and by nothing for one that was.
C24_AppliedOnce ==
  [][(/\ pc = "destruction"
      /\ player # 0
      /\ ent[player].active
      /\ \A id \in SeqToSet(entities) : ent[id].kind = "enemy" => ent[id].active)
       => gameState'.score = gameState.score
            + PowerUpPoints * Cardinality(InReach \ SeqToSet(entitiesToRemove))]_vars

\* The projectiles a step has staged, in the order of their staging
Volley == SubSeq(entitiesToAdd', Len(entitiesToAdd) + 1, Len(entitiesToAdd'))

\* C25: one shoot action stages getMultiShotCount() projectiles of the
\* player: one aimed straight up without a multi-shot effect, and with the
\* effect of count 3 three of them, their directions mirrored about straight
\* up and 30 degrees (pi/6) from the first to the last.
C25_VolleyOfMultiShotCount ==
  [][(pc = "api" /\ Len(entitiesToAdd') > Len(entitiesToAdd)) =>
       LET n == Len(Volley)
           a == [k \in 1..n |-> ent'[Volley[k]].angle]
       IN /\ n = GetMultiShotCount(activePowerUps)
          /\ \A k \in 1..n : /\ ent'[Volley[k]].kind = "projectile"
                              /\ ent'[Volley[k]].sub = "player"
          /\ ~HasPowerUp(activePowerUps, "multi_shot") => n = 1 /\ a[1] = 0
          /\ HasPowerUp(activePowerUps, "multi_shot") =>
               /\ n = 3
               /\ \A k \in 1..n : a[k] = -a[n + 1 - k]
               /\ a[n] - a[1] = 30 * 60]_vars

\* A fan of three is staged behind the player: 15 degrees to the left,
\* straight up, 15 degrees to the right.
C25_FanStaged ==
  /\ HasPowerUp(activePowerUps, "multi_shot")
  /\ Len(entitiesToAdd) = 4
  /\ ent[entitiesToAdd[1]].kind = "player"
  /\ ent[entitiesToAdd[2]].angle = -900
  /\ ent[entitiesToAdd[3]].angle = 0
  /\ ent[entitiesToAdd[4]].angle = 900

\* C26: a shot that follows another shot of the same player comes after
\* updates that have accumulated at least the fire rate then in force, and
\* every shot leaves the shot timer at 0.
C26_ShotsApart ==
  lastCall.op = "shoot" =>
    /\ ent[player].lastShotTime = 0
    /\ lastCall.type = "shot" => lastCall.dt >= lastCall.rate

\* The second shot under a fire rate halved since the first, 160 ms of
\* updates after it
C26_SecondShotAtHalfRate ==
  /\ lastCall.op = "shoot"
  /\ lastCall.type = "shot"
  /\ lastCall.rate = BaseFireRate \div 2
  /\ lastCall.dt = 160

\* C27: the EntityManager never holds more than one active player, its
\* staged additions counted with its live set.
C27_OneActivePlayer ==
  Cardinality({id \in SeqToSet(entities) \cup SeqToSet(entitiesToAdd) :
                 ent[id].kind = "player" /\ ent[id].active}) <= 1

\* Right after a respawn: the new player staged, the dead one still live
C27_RespawnStaged ==
  /\ player \in SeqToSet(entitiesToAdd)
  /\ ent[player].active
  /\ \E id \in SeqToSet(entities) : ent[id].kind = "player" /\ ~ent[id].active

\* C28: the two onCollision calls of a colliding pair leave both entities
\* with the health and the active flag that the calls in the other order
\* would have left.
C28_CallOrderFree ==
  [][pc = "hit" =>
       LET a == lastCall'.a
           b == lastCall'.b
           swapped == OnCollision(OnCollision(ent, b, a), a, b)
       IN \A id \in {1, 2} :
            /\ ent'[id].health = swapped[id].health
            /\ ent'[id].active = swapped[id].active]_vars

\* An unshielded player at full health met a heavy enemy: both handlers
\* acted, the player lost 1 and 2 and the enemy is gone
C28_PlayerMetHeavy ==
  /\ lastCall.op = "collide"
  /\ lastCall.before[lastCall.a].kind = "player"
  /\ lastCall.before[lastCall.a].health = PlayerHealth
  /\ ~lastCall.before[lastCall.a].shieldActive
  /\ lastCall.before[lastCall.b].sub = "heavy"
  /\ ent[lastCall.a].health = 0
  /\ ~ent[lastCall.a].active
  /\ ~ent[lastCall.b].active

\* C29: an active unshielded player that collides with an enemy loses
\* exactly the enemy's contact damage (1 for basic and fast, 2 for heavy, as
\* far as the health goes), and the enemy is inactive afterwards unless it
\* is a boss, which stays active.
C29_ContactDamageOnly ==
  [][pc = "hit" =>
       \A p \in {1, 2} :
         LET e == 3 - p IN
         (ent[p].kind = "player" /\ ~ent[p].shieldActive /\ ent[e].kind = "enemy") =>
           /\ ent'[p].health = Max(0, ent[p].health - ent[e].dmg)
           /\ ent'[e].active = (ent[e].sub = "boss")]_vars

\* C30: a projectile damages at most one entity over its life, also with
\* several targets under it in one frame, and it is inactive once it has
\* damaged one.
C30_SingleHit ==
  pc = "crowd" =>
    /\ Cardinality(lastCall.hurt) <= 1
    /\ lastCall.hurt # {} =>
          \A id \in DOMAIN ent : ent[id].kind = "projectile" => ~ent[id].active

\* Two live targets under the projectile: one was damaged, the other one,
\* still active and still under it, was not
C30_SecondTargetSpared ==
  /\ pc = "crowd"
  /\ Cardinality(lastCall.hurt) = 1
  /\ \E p \in DOMAIN ent, id \in DOMAIN ent :
       /\ ent[p].kind = "projectile"
       /\ ~ent[p].active
       /\ id # p
       /\ id \notin lastCall.hurt
       /\ ent[id].active
       /\ ent[id].health = ent[id].maxHealth
       /\ Intersects(ent[p], ent[id])

\* The regular entities of one kind that a step has staged
Staged(kind) ==
  {i \in DOMAIN entitiesToAdd' :
     /\ i > Len(entitiesToAdd)
     /\ ent'[entitiesToAdd'[i]].kind = kind
     /\ ent'[entitiesToAdd'[i]].sub # "boss"}

\* C31: a call of EnemySpawner.update or of BarrelSpawner.update stages at
\* most one entity that is not a boss, whatever time has accumulated, and
\* the spawner that has staged one has its accumulator at 0 after the call.
C31_OneSpawnPerCall ==
  [][(pc = "spawners" /\ lastCall'.op \in {"enemySpawner.update", "barrelSpawner.update"}) =>
       /\ Cardinality(Staged("enemy")) + Cardinality(Staged("barrel")) <= 1
       /\ Staged("enemy") # {} => spawnTimers'.enemy = 0
       /\ Staged("barrel") # {} => spawnTimers'.barrel = 0]_vars

\* The first call of EnemySpawner.update, with 45 s at once at level 1 (36
\* spawn intervals): one enemy staged, the accumulator at 0
C31_OneEnemyAfter45s ==
  /\ pc = "spawners"
  /\ lastCall.op = "enemySpawner.update"
  /\ lastCall.dt = BossSpawnInterval
  /\ gameState.currentLevel = 1
  /\ spawnTimers.boss = BossSpawnInterval
  /\ spawnTimers.enemy = 0
  /\ entities = <<>>
  /\ Len(entitiesToAdd) = 1
  /\ ent[entitiesToAdd[1]].kind = "enemy"

\* C32: an inactive entity that stays in the live set is left where it is by
\* every step of the frame and stays inactive; the update pass of the
\* EntityManager calls update() on no inactive entity, and the renderer
\* draws none.
C32_InactiveLeftAlone ==
  [][/\ \A id \in SeqToSet(entities) \cap SeqToSet(entities') :
          ~ent[id].active =>
            /\ ~ent'[id].active
            /\ ent'[id].x = ent[id].x
            /\ ent'[id].y = ent[id].y
     /\ \A id \in SeqToSet(Updated(EMRemoveStaged(EMPromote(CurEM, ent), ent), ent)) :
          ent[id].active
     /\ \A id \in SeqToSet(Rendered(GetAllEntities(CurEM), ent)) :
          ent[id].active]_vars

\* After the physics of a frame in which time has passed: a projectile or
\* an enemy that was inactive before the frame is still in the live set
C32_DeadMoverKept ==
  /\ pc = "destruction"
  /\ deltaTime > 0
  /\ \E id \in SeqToSet(entities) \cap SeqToSet(entitiesToRemove) :
       /\ ~ent[id].active
       /\ Moves(ent[id])
       /\ NextRow(ent[id]) # ent[id].y

\* C33: a frame that finds the status paused, menu or game_over and leaves
\* it as it is changes nothing of the game: the entities and the manager's
\* lists, score, lives and level, the level timer, the kill counter, the
\* spawners' accumulators and the power-ups with their remaining times.
C33_IdleFrameChangesNothing ==
  [][(/\ pc \in {"idle", "loop"}
      /\ isRunning
      /\ updateArgs' # <<>>
      /\ gameState.gameStatus \in {"paused", "menu", "game_over"}
      /\ gameState'.gameStatus = gameState.gameStatus) =>
       UNCHANGED <<gameState, highScore, levelProgressTimer,
                   enemiesKilledThisLevel, lmLevel, ent, player, entities,
                   entitiesToAdd, entitiesToRemove, entitiesByType,
                   activePowerUps, pmPlayer, spawnTimers>>]_vars

\* A frame has run 16 ms after the one before, the game being over (the
\* frame that ends the game is a full step after its predecessor), with
\* the entities of the lost game still in the manager
C33_FrameWhileGameOver ==
  /\ pc = "idle"
  /\ isRunning
  /\ gameState.gameStatus = "game_over"
  /\ updateArgs = <<16>>
  /\ \E id \in SeqToSet(entities) : ent[id].kind = "enemy"

\* C34: chooseEnemyType returns basic at level 1, basic or fast at level 2,
\* and at every level from 3 on there is a draw for which it returns fast
\* and a draw for which it returns heavy.
C34_KindsByLevel ==
  lastCall.op = "chooseEnemyType" =>
    /\ lastCall.level = 1 => lastCall.result = "basic"
    /\ lastCall.level = 2 => lastCall.result \in {"basic", "fast"}
    /\ lastCall.level >= 3 =>
          {"fast", "heavy"} \subseteq
            {ChooseEnemyType(lmLevel, lastCall.level, r) : r \in Randoms}

\* C35: LevelManager.currentLevel is gameState.currentLevel in every state.
C35_LevelsAgree == lmLevel = gameState.currentLevel

\* C36: at most one frame callback of gameLoop is pending at any time.
C36_OneCallbackPending == scheduled <= 1

\* C37: lives is between 0 and 3 in every state, and it is 0 exactly in the
\* states whose status is game_over.
C37_LivesAndGameOver ==
  /\ gameState.lives \in 0..InitialLives
  /\ gameState.lives = 0 <=> gameState.gameStatus = "game_over"

\* The enemies of the live set that are destroyed and not yet counted
Uncounted ==
  {id \in SeqToSet(entities) :
     ent[id].kind = "enemy" /\ ~ent[id].active /\ ent[id].scored = 0}

\* C38: the kill counter of the level goes up only for destroyed enemies,
\* by 1 for each of them: a step that raises it raises it by the number of
\* destroyed enemies not yet counted.
C38_KillsCountEnemies ==
  [][enemiesKilledThisLevel' > enemiesKilledThisLevel =>
       enemiesKilledThisLevel' = enemiesKilledThisLevel + Cardinality(Uncounted)]_vars

\* C39: while the PowerUpManager holds a rapid-fire effect, the fire rate of
\* the player the engine controls is below the default of 0.3 s.
C39_RapidFireInForce ==
  (HasPowerUp(activePowerUps, "rapid_fire") /\ player # 0) =>
    ent[player].fireRate < BaseFireRate

\* C40: while frames keep running in the playing state, the enemies that are
\* not bosses, the projectiles, barrels, power-ups and particles the manager
\* holds have all left the live set and the kind index at some later time,
\* and none leaves the live set while it is active.
C40_EverythingDrains ==
  /\ [][\A id \in SeqToSet(entities) \ SeqToSet(entities') :
          Lingers(id) => ~ent[id].active]_vars
  /\ (Lingering # {}) ~> (Lingering = {} \/ gameState.gameStatus # "playing")

\* A power-up that has outlived its 15 s and is staged for removal
C40_PowerUpExpired ==
  \E id \in SeqToSet(entitiesToRemove) :
    /\ ent[id].kind = "powerup"
    /\ ent[id].lifeTime > PowerUpLifeMs
    /\ Lingers(id)
====
